---- MODULE Spec2Model ----
(***************************************************************************)
(* Topic parsing, pattern matching, listener dispatch and entity-state     *)
(* synchronisation of sync_entities_via_mqtt.py.                            *)
(*                                                                         *)
(* A python str is a sequence of one-character strings; python's None is   *)
(* the one-element sequence <<"None">>, which no str equals.  A call that  *)
(* can raise returns its exception's name beside its value.                *)
(***************************************************************************)
EXTENDS Integers, Sequences, FiniteSets, TLC

VARIABLES
    mqtt_base_topic,    \* the configured base topic
    segments,           \* the '/'-free pieces the topic under test was built from
    event,              \* the topic string handed to EventParts
    pattern,            \* the EventPattern handed to EventParts (NoPattern: None)
    ep,                 \* the EventParts object, once constructed
    mp,                 \* one call of EventParts._match_pattern
    listeners,          \* EventListenerDispatcher._listeners, in dict order
    call,               \* the dispatcher / app call made last, with its arguments
    pre,                \* _listeners as it was when that call began
    exc,                \* the exception that call raised, or "none"
    invoked,            \* the callbacks that call invoked, in order
    results,            \* the list dispatch returned
    logged,             \* the messages that call logged, in order
    my_hostname,        \* SyncEntitiesViaMqtt.my_hostname
    initialized,        \* whether initialize() has run
    scheduled,          \* the run_in callbacks that are pending
    published,          \* the messages handed to mqtt_publish, in order
    store,              \* the state store of namespace "default": entity id -> state
    state_entities,     \* the configured state_for_entities list, or None
    _state_listeners,   \* the listen_state handles: the entity each one watches
    services,           \* the names passed to register_service
    en,                 \* one use of entity_add_hostname / entity_split_hostname
    nodes,              \* several hosts running the component: host -> its state
    wire,               \* the messages the broker has still to deliver, per host
    foreign,            \* the messages other clients of the broker have published
    backup_ha,          \* the BackupHa app, its clock and its backup directory
    gentlewakeup,       \* the GentleWakeup app, its clock and the devices it drives
    light_fade,         \* the LightFade app: its pending cb_fader timers, its commands
    haven               \* the HavenHomeModeSync app of haven_home_mode.py

partsVars == <<segments, event, pattern, ep, mp>>
dispVars == <<listeners, call, pre, exc, invoked, results, logged>>
syncVars == <<my_hostname, initialized, scheduled, published, store, state_entities,
              _state_listeners, services>>
codecVars == <<en>>
netVars == <<nodes, wire, foreign>>
appVars == <<backup_ha, gentlewakeup, light_fade, haven>>
restVars == <<codecVars, netVars, appVars>>
vars == <<mqtt_base_topic, partsVars, dispVars, syncVars, restVars>>

---------------------------------------------------------------------------
(* Strings *)

None == <<"None">>

\* SyncEntitiesViaMqtt.MQTT_DEFAULT_BASE_TOPIC
MQTT_DEFAULT_BASE_TOPIC == <<"m", "q", "t", "t", "_", "s", "h", "a", "r", "e", "d">>

S_all == <<"a", "l", "l">>
S_star == <<"*">>
S_h == <<"h">>
S_g == <<"g">>
S_state == <<"s", "t", "a", "t", "e">>
S_ping == <<"p", "i", "n", "g">>
S_empty == <<>>

Bang(s) == <<"!">> \o s

\* str.split("/") of the remainder s, with cur the piece being read
RECURSIVE SplitFrom(_, _, _)
SplitFrom(s, cur, acc) ==
    IF s = <<>> THEN Append(acc, cur)
    ELSE IF Head(s) = "/" THEN SplitFrom(Tail(s), <<>>, Append(acc, cur))
    ELSE SplitFrom(Tail(s), Append(cur, Head(s)), acc)

split(s) == SplitFrom(s, <<>>, <<>>)

\* "/".join(pieces), the way the f-strings of the source build a topic
RECURSIVE join(_)
join(pieces) ==
    IF Len(pieces) = 0 THEN <<>>
    ELSE IF Len(pieces) = 1 THEN pieces[1]
    ELSE pieces[1] \o <<"/">> \o join(Tail(pieces))

---------------------------------------------------------------------------
(* EventPattern and EventParts *)

NoPattern == [none |-> TRUE]

EventPattern(fromhost, tohost, event_type, entity) ==
    [pattern_fromhost |-> fromhost, pattern_tohost |-> tohost,
     pattern_event_type |-> event_type, pattern_entity |-> entity]

\* pattern.pattern_fromhost if pattern else None, and the three others
PatternFields(p) ==
    IF p = NoPattern THEN EventPattern(None, None, None, None) ELSE p

\* _do_split: whether the topic is well formed, and the fields it leaves on self
_do_split_bad_count(base, topic) ==
    LET parts == split(topic) IN
    IF Len(parts) < 3 \/ Len(parts) > 5 THEN
        [ok |-> FALSE, log |-> <<"improper format">>, fromhost |-> None,
         tohost |-> None, event_type |-> None, entity |-> None]
    ELSE IF parts[1] # base THEN
        [ok |-> FALSE, log |-> <<"does not start with">>, fromhost |-> None,
         tohost |-> None, event_type |-> None, entity |-> None]
    ELSE
        [ok |-> TRUE, log |-> <<>>, fromhost |-> parts[2], tohost |-> parts[3],
         event_type |-> IF Len(parts) >= 4 THEN parts[4] ELSE None,
         entity |-> IF Len(parts) >= 5 THEN parts[5] ELSE None]

_do_split_legacy(base, topic) ==
    LET parts == split(topic) IN
    IF Len(parts) < 4 \/ Len(parts) > 5 THEN
        [ok |-> FALSE, log |-> <<"improper format">>, fromhost |-> None,
         tohost |-> None, event_type |-> None, entity |-> None]
    ELSE IF parts[1] # base THEN
        [ok |-> FALSE, log |-> <<"does not start with">>, fromhost |-> None,
         tohost |-> None, event_type |-> None, entity |-> None]
    ELSE
        [ok |-> TRUE, log |-> <<>>, fromhost |-> parts[2], tohost |-> None,
         event_type |-> parts[3],
         entity |-> IF Len(parts) >= 5 THEN parts[5] ELSE parts[4]]

_do_split(base, topic) ==
    LET parts == split(topic) IN
    IF Len(parts) < 4 \/ Len(parts) > 5 THEN
        [ok |-> FALSE, log |-> <<"improper format">>, fromhost |-> None,
         tohost |-> None, event_type |-> None, entity |-> None]
    ELSE IF parts[1] # base THEN
        [ok |-> FALSE, log |-> <<"does not start with">>, fromhost |-> None,
         tohost |-> None, event_type |-> None, entity |-> None]
    ELSE
        [ok |-> TRUE, log |-> <<>>, fromhost |-> parts[2], tohost |-> parts[3],
         event_type |-> parts[4],
         entity |-> IF Len(parts) >= 5 THEN parts[5] ELSE None]

Returns(v) == [exc |-> "none", ret |-> v]
Raises(e) == [exc |-> e, ret |-> FALSE]

\* _match_pattern with the negation test dropped
_match_pattern_no_negation(value, pat, special_all) ==
    IF pat = None THEN Returns(TRUE)
    ELSE IF special_all /\ pat \in {S_all, S_star} THEN Returns(TRUE)
    ELSE IF Len(pat) = 0 THEN Raises("IndexError")
    ELSE Returns(pat = value)

\* _match_pattern with "all" and "*" special whatever special_all says
_match_pattern_always_special(value, pat, special_all) ==
    IF pat = None THEN Returns(TRUE)
    ELSE IF pat \in {S_all, S_star} THEN Returns(TRUE)
    ELSE IF Len(pat) = 0 THEN Raises("IndexError")
    ELSE IF Head(pat) = "!" THEN Returns(Tail(pat) # value)
    ELSE Returns(pat = value)

\* _match_pattern: pattern[0] of the empty str raises IndexError
_match_pattern(value, pat, special_all) ==
    IF pat = None THEN Returns(TRUE)
    ELSE IF special_all /\ pat \in {S_all, S_star} THEN Returns(TRUE)
    ELSE IF Len(pat) = 0 THEN Raises("IndexError")
    ELSE IF Head(pat) = "!" THEN Returns(Tail(pat) # value)
    ELSE Returns(pat = value)

\* python's "a and b": b is evaluated only when a returned True
AndThen(a, b) ==
    IF a.exc # "none" THEN a
    ELSE IF ~a.ret THEN a
    ELSE b

\* _do_match with the entity test dropped
_do_match_no_entity(f, p) ==
    AndThen(_match_pattern(f.fromhost, p.pattern_fromhost, TRUE),
    AndThen(_match_pattern(f.tohost, p.pattern_tohost, TRUE),
            _match_pattern(f.event_type, p.pattern_event_type, FALSE)))

\* _do_match over the fields f that _do_split left and the pattern fields p
_do_match(f, p) ==
    AndThen(_match_pattern(f.fromhost, p.pattern_fromhost, TRUE),
    AndThen(_match_pattern(f.tohost, p.pattern_tohost, TRUE),
    AndThen(_match_pattern(f.event_type, p.pattern_event_type, FALSE),
            _match_pattern(f.entity, p.pattern_entity, FALSE))))

\* EventParts.__init__ that matches whether or not the split succeeded
EventParts_match_unsplit(base, topic, pat) ==
    LET f == _do_split(base, topic)
        m == _do_match(f, PatternFields(pat))
    IN  [constructed |-> TRUE, exc |-> m.exc, split_ok |-> f.ok, log |-> f.log,
         matches |-> m.exc = "none" /\ m.ret,
         fromhost |-> f.fromhost, tohost |-> f.tohost,
         event_type |-> f.event_type, entity |-> f.entity]

\* EventParts.__init__: the object it builds, or the exception it raises
EventParts(base, topic, pat) ==
    LET f == _do_split(base, topic)
        m == IF f.ok THEN _do_match(f, PatternFields(pat)) ELSE Returns(FALSE)
    IN  [constructed |-> TRUE, exc |-> m.exc, split_ok |-> f.ok, log |-> f.log,
         matches |-> m.exc = "none" /\ m.ret,
         fromhost |-> f.fromhost, tohost |-> f.tohost,
         event_type |-> f.event_type, entity |-> f.entity]

NotConstructed ==
    [constructed |-> FALSE, exc |-> "none", split_ok |-> FALSE, log |-> <<>>,
     matches |-> FALSE,
     fromhost |-> None, tohost |-> None, event_type |-> None, entity |-> None]

---------------------------------------------------------------------------
(* EventListenerDispatcher: _listeners is a dict, kept here in its order *)

EventListener(name, pat, callback) ==
    [name |-> name, pattern |-> pat, callback |-> callback]

DictKeys(d) == {d[i].name : i \in 1..Len(d)}

\* del d[key], for a key that is present
DictDel(d, key) == SelectSeq(d, LAMBDA l : l.name # key)

\* d[l.name] = l: a present key keeps its place, a new key goes last
DictSet(d, l) ==
    IF l.name \in DictKeys(d)
    THEN [i \in 1..Len(d) |-> IF d[i].name = l.name THEN l ELSE d[i]]
    ELSE Append(d, l)

\* "callback if callback else self.default_callback"
CallbackOrDefault(callback) ==
    IF callback = "None" THEN "default_callback" ELSE callback

\* add_listener: for a registered name it deletes the key "name", the string
\* literal, which raises KeyError unless a listener is called "name"
add_listener(d, name, pat, callback) ==
    IF name \in DictKeys(d) /\ "name" \notin DictKeys(d)
    THEN [exc |-> "KeyError", log |-> <<"re-register">>, listeners |-> d]
    ELSE [exc |-> "none",
          log |-> IF name \in DictKeys(d) THEN <<"re-register">> ELSE <<>>,
          listeners |-> DictSet(IF name \in DictKeys(d) THEN DictDel(d, "name")
                                                        ELSE d,
                                EventListener(name, pat,
                                              CallbackOrDefault(callback)))]

\* remove_listener: it too deletes the key "name"
remove_listener(d, name) ==
    IF name \notin DictKeys(d)
    THEN [exc |-> "none", log |-> <<"remove not found">>, listeners |-> d]
    ELSE IF "name" \notin DictKeys(d)
    THEN [exc |-> "KeyError", log |-> <<>>, listeners |-> d]
    ELSE [exc |-> "none", log |-> <<>>, listeners |-> DictDel(d, "name")]

---------------------------------------------------------------------------
(* Payloads and entity names *)

S_on == <<"o", "n">>
S_off == <<"o", "f", "f">>
S_1 == <<"1">>
S_pong == <<"p", "o", "n", "g">>
S_e == <<"e">>
ListOfNone == <<"[None]">>

Digits == {"0", "1", "2", "3", "4", "5", "6", "7", "8", "9"}

\* json.loads, for the payloads tried here: a str of digits without a leading zero
\* is an int, and "on", "off" and the like are no JSON
json_loads(payload) ==
    IF payload = None THEN [exc |-> "TypeError", ret |-> None]
    ELSE IF /\ Len(payload) > 0
            /\ \A i \in 1..Len(payload) : payload[i] \in Digits
            /\ (Len(payload) = 1 \/ payload[1] # "0")
    THEN [exc |-> "none", ret |-> <<"int">> \o payload]
    ELSE [exc |-> "JSONDecodeError", ret |-> None]

\* safe_payload_as_obj that hands the payload on without decoding it
safe_payload_as_obj_raw(payload) == [ret |-> payload, log |-> <<>>]

\* safe_payload_as_obj: None on a decode error, and on any other error, logged
safe_payload_as_obj(payload) ==
    LET r == json_loads(payload) IN
    [ret |-> IF r.exc = "none" THEN r.ret ELSE None,
     log |-> IF r.exc \in {"none", "JSONDecodeError"} THEN <<>>
             ELSE <<"Unexpected error trying to json decode">>]

\* entity_add_hostname
entity_add_hostname(entity, host) == entity \o <<"_">> \o host

\* entity_split_hostname: re.fullmatch(r"(.*)_([^#]+)", entity).  The greedy (.*)
\* ends at the last "_" that leaves a non-empty rest free of "#"; "." matches no
\* newline; re.fullmatch(.., None) raises TypeError
entity_split_hostname(entity) ==
    IF entity = None THEN [exc |-> "TypeError", entity |-> None, host |-> None]
    ELSE
        LET n == Len(entity)
            cuts == {i \in 1..n :
                        /\ entity[i] = "_"
                        /\ i < n
                        /\ \A j \in (i + 1)..n : entity[j] # "#"
                        /\ \A j \in 1..(i - 1) : entity[j] # "\n"}
        IN  IF cuts = {}
            THEN [exc |-> "none", entity |-> entity, host |-> None]
            ELSE LET i == CHOOSE c \in cuts : \A o \in cuts : o <= c IN
                 [exc |-> "none", entity |-> SubSeq(entity, 1, i - 1),
                  host |-> SubSeq(entity, i + 1, n)]

---------------------------------------------------------------------------
(* The callbacks, acting on w = [my_hostname, published, store, log]: the app *)
(* object self, with the state store and the broker it writes to *)

Message(topic, payload) == [topic |-> topic, payload |-> payload]

\* default_callback: returns [self.adapi.log(..)], the list holding None
default_callback(a, w) ==
    [exc |-> "none", ret |-> ListOfNone,
     w |-> [w EXCEPT !.log = Append(@, "default_callback")]]

\* ping_callback that addresses the pong to the tohost of the ping
ping_callback_to_tohost(a, w) ==
    [exc |-> "none", ret |-> None,
     w |-> [w EXCEPT
            !.log = Append(@, "PING/PONG"),
            !.published = Append(@, Message(
                join(<<mqtt_base_topic, w.my_hostname, a.tohost, S_pong>>),
                a.payload))]]

\* ping_callback: publishes base/my_hostname/fromhost/pong with the same payload
ping_callback(a, w) ==
    [exc |-> "none", ret |-> None,
     w |-> [w EXCEPT
            !.log = Append(@, "PING/PONG"),
            !.published = Append(@, Message(
                join(<<mqtt_base_topic, w.my_hostname, a.fromhost, S_pong>>),
                a.payload))]]

\* inbound_state_callback that names the mirror after tohost
inbound_state_callback_by_tohost(a, w) ==
    LET s == entity_split_hostname(a.entity) IN
    IF s.exc # "none" THEN [exc |-> s.exc, ret |-> None, w |-> w]
    ELSE IF s.host # None THEN
        [exc |-> "none", ret |-> None,
         w |-> [w EXCEPT !.log = Append(@, "inbound_state_callback(): Ignoring")]]
    ELSE
        [exc |-> "none", ret |-> None,
         w |-> [w EXCEPT
                !.log = @ \o <<"inbound_state_callback(): set_state",
                               "inbound_callback() set_state">>,
                !.store = (entity_add_hostname(a.entity, a.tohost) :> a.payload)
                          @@ @]]

\* inbound_state_callback that mirrors an entity whatever its name decodes to
inbound_state_callback_remirror(a, w) ==
    LET s == entity_split_hostname(a.entity) IN
    IF s.exc # "none" THEN [exc |-> s.exc, ret |-> None, w |-> w]
    ELSE
        [exc |-> "none", ret |-> None,
         w |-> [w EXCEPT
                !.log = @ \o <<"inbound_state_callback(): set_state",
                               "inbound_callback() set_state">>,
                !.store = (entity_add_hostname(a.entity, a.fromhost) :> a.payload)
                          @@ @]]

\* inbound_state_callback that also publishes the state it has mirrored
inbound_state_callback_republish(a, w) ==
    LET s == entity_split_hostname(a.entity) IN
    IF s.exc # "none" THEN [exc |-> s.exc, ret |-> None, w |-> w]
    ELSE IF s.host # None THEN
        [exc |-> "none", ret |-> None,
         w |-> [w EXCEPT !.log = Append(@, "inbound_state_callback(): Ignoring")]]
    ELSE
        [exc |-> "none", ret |-> None,
         w |-> [w EXCEPT
                !.log = @ \o <<"inbound_state_callback(): set_state",
                               "inbound_callback() set_state">>,
                !.store = (entity_add_hostname(a.entity, a.fromhost) :> a.payload)
                          @@ @,
                !.published = Append(@, Message(
                    join(<<mqtt_base_topic, w.my_hostname, S_state,
                           entity_add_hostname(a.entity, a.fromhost)>>),
                    a.payload))]]

\* inbound_state_callback
inbound_state_callback(a, w) ==
    LET s == entity_split_hostname(a.entity) IN
    IF s.exc # "none" THEN [exc |-> s.exc, ret |-> None, w |-> w]
    ELSE IF s.host # None THEN
        [exc |-> "none", ret |-> None,
         w |-> [w EXCEPT !.log = Append(@, "inbound_state_callback(): Ignoring")]]
    ELSE
        [exc |-> "none", ret |-> None,
         w |-> [w EXCEPT
                !.log = @ \o <<"inbound_state_callback(): set_state",
                               "inbound_callback() set_state">>,
                !.store = (entity_add_hostname(a.entity, a.fromhost) :> a.payload)
                          @@ @]]

\* the callback of test_dispatcher returns its payload; a second caller-supplied
\* callback returns its entity
CallCallback(callback, a, w) ==
    CASE callback = "default_callback" -> default_callback(a, w)
      [] callback = "ping_callback" -> ping_callback(a, w)
      [] callback = "inbound_state_callback" -> inbound_state_callback(a, w)
      [] callback = "callback" -> [exc |-> "none", ret |-> a.payload, w |-> w]
      [] callback = "callback2" -> [exc |-> "none", ret |-> a.entity, w |-> w]

---------------------------------------------------------------------------
(* dispatch *)

Invocation(l, e, payload, obj) ==
    [name |-> l.name, callback |-> l.callback, fromhost |-> e.fromhost,
     tohost |-> e.tohost, event_type |-> e.event_type, entity |-> e.entity,
     payload |-> payload, payload_as_obj |-> obj]

\* the for loop of dispatch from listener i on; r carries exc, invoked, results,
\* did_dispatch and w.  An exception ends the loop and the call.
RECURSIVE DispatchLoop(_, _, _, _, _, _)
DispatchLoop(d, i, base, mq_event, payload, r) ==
    IF i > Len(d) \/ r.exc # "none" THEN r
    ELSE
        LET l == d[i]
            e == EventParts(base, mq_event, l.pattern)
            w1 == [r.w EXCEPT !.log = @ \o e.log]
        IN
        IF e.exc # "none" THEN [r EXCEPT !.exc = e.exc, !.w = w1]
        ELSE IF ~e.matches THEN
            DispatchLoop(d, i + 1, base, mq_event, payload, [r EXCEPT !.w = w1])
        ELSE
            LET obj == safe_payload_as_obj(payload)
                a == Invocation(l, e, payload, obj.ret)
                w2 == [w1 EXCEPT !.log = Append(@, "dispatching to") \o obj.log]
                c == CallCallback(l.callback, a, w2)
            IN
            IF c.exc # "none"
            THEN [r EXCEPT !.exc = c.exc, !.w = c.w,
                           !.invoked = Append(@, a)]
            ELSE DispatchLoop(d, i + 1, base, mq_event, payload,
                    [r EXCEPT !.w = c.w, !.invoked = Append(@, a),
                              !.results = Append(@, c.ret),
                              !.did_dispatch = TRUE])

\* dispatch: the loop, then the diagnostic when nothing was dispatched
dispatch(d, base, mq_event, payload, w) ==
    LET r == DispatchLoop(d, 1, base, mq_event, payload,
                [exc |-> "none", invoked |-> <<>>, results |-> <<>>,
                 did_dispatch |-> FALSE, w |-> w])
    IN  IF r.exc = "none" /\ ~r.did_dispatch
        THEN [r EXCEPT !.w.log = Append(@, "could not find pattern to match")]
        ELSE r

---------------------------------------------------------------------------
(* EventParts and _match_pattern on bounded inputs *)

\* the longest topic tried, in '/'-separated pieces
MaxSegments == 6

BaseTopics == {MQTT_DEFAULT_BASE_TOPIC, S_g}
FirstSegments == {MQTT_DEFAULT_BASE_TOPIC, S_g}
OtherSegments == {S_h, S_all, S_state}
FromhostPatterns == {None, S_empty, S_all, S_h, Bang(S_h)}
TohostPatterns == {None, S_empty, S_all, Bang(S_h)}
EventTypePatterns == {None, S_empty, S_all, S_state}
EntityPatterns == {None, S_empty, S_all, Bang(S_h)}
Patterns ==
    {NoPattern} \cup
    {EventPattern(a, b, c, d) : a \in FromhostPatterns, b \in TohostPatterns,
                                c \in EventTypePatterns, d \in EntityPatterns}

\* every topic of at most MaxSegments pieces: the first is a base or not, the next
\* four range over OtherSegments, and the pieces past the fifth are all "h"
Topics ==
    UNION {{s \in [1..n -> FirstSegments \cup OtherSegments] :
                /\ s[1] \in FirstSegments
                /\ \A i \in 2..n : IF i <= 5 THEN s[i] \in OtherSegments ELSE s[i] = S_h}
           : n \in 1..MaxSegments}

MatchValues == {None, S_empty, S_all, S_star, S_h, S_g, Bang(S_h)}
MatchPatterns ==
    {None, S_empty, S_all, S_star, S_h, S_g, Bang(S_h), Bang(S_all), Bang(S_empty),
     Bang(Bang(S_h))}

NoCall == [value |-> None, pattern |-> None, special_all |-> FALSE,
           called |-> FALSE, exc |-> "none", ret |-> FALSE]

dispIdle ==
    /\ listeners = <<>>
    /\ call = [op |-> "none"]
    /\ pre = <<>>
    /\ exc = "none"
    /\ invoked = <<>>
    /\ results = <<>>
    /\ logged = <<>>

syncIdle ==
    /\ my_hostname = None
    /\ initialized = FALSE
    /\ scheduled = {}
    /\ published = <<>>
    /\ store = <<>>
    /\ state_entities = None
    /\ _state_listeners = <<>>
    /\ services = {}

NoCodec == [entity |-> None, host |-> None, added |-> None, called |-> FALSE,
            arg |-> None, exc |-> "none", ret |-> <<None, None>>]

codecIdle == en = NoCodec

netIdle ==
    /\ nodes = <<>>
    /\ wire = <<>>
    /\ foreign = <<>>

appIdle ==
    /\ backup_ha = [initialized |-> FALSE]
    /\ gentlewakeup = [initialized |-> FALSE]
    /\ light_fade = [initialized |-> FALSE]
    /\ haven = [initialized |-> FALSE]

restIdle == codecIdle /\ netIdle /\ appIdle

InitParts ==
    /\ mqtt_base_topic \in BaseTopics
    /\ \/ /\ segments \in Topics
          /\ event = join(segments)
          /\ mp = NoCall
       \/ /\ segments = <<>>
          /\ event = None
          /\ \E v \in MatchValues, p \in MatchPatterns, s \in BOOLEAN :
                mp = [NoCall EXCEPT !.value = v, !.pattern = p, !.special_all = s]
    /\ pattern = NoPattern
    /\ ep = NotConstructed
    /\ dispIdle
    /\ syncIdle
    /\ restIdle

\* EventParts(adapi, mqtt_base_topic, event, pattern)
NewEventParts ==
    /\ event # None
    /\ ~ep.constructed
    /\ \E p \in Patterns :
        /\ pattern' = p
        /\ ep' = EventParts(mqtt_base_topic, event, p)
    /\ UNCHANGED <<mqtt_base_topic, segments, event, mp, dispVars, syncVars, restVars>>

\* self._match_pattern(value, pattern, special_all)
CallMatchPattern ==
    /\ event = None
    /\ ~mp.called
    /\ LET r == _match_pattern(mp.value, mp.pattern, mp.special_all) IN
        mp' = [mp EXCEPT !.called = TRUE, !.exc = r.exc, !.ret = r.ret]
    /\ UNCHANGED <<mqtt_base_topic, segments, event, pattern, ep, dispVars, syncVars, restVars>>

NextParts == NewEventParts \/ CallMatchPattern

SpecParts == InitParts /\ [][NextParts]_vars

---------------------------------------------------------------------------
(* Claims about EventParts and _match_pattern, under SpecParts *)

WellFormed == Len(segments) \in {4, 5} /\ segments[1] = mqtt_base_topic

\* base/fromhost/tohost/event_type, and /entity when there is one
FormatTopic(base, fromhost, tohost, event_type, entity) ==
    join(<<base, fromhost, tohost, event_type>>
         \o (IF entity = None THEN <<>> ELSE <<entity>>))

C3_StateTopicFields ==
    (/\ ep.constructed
     /\ mqtt_base_topic = MQTT_DEFAULT_BASE_TOPIC
     /\ Len(segments) = 4 /\ segments[1] = MQTT_DEFAULT_BASE_TOPIC
     /\ segments[3] = S_state
     /\ pattern = EventPattern(segments[2], None, None, None)) =>
        /\ ep.matches
        /\ ep.fromhost = segments[2]
        /\ ep.event_type = S_state
        /\ ep.entity = segments[4]

\* the reference matcher: an absent pattern matches anything; "all" and "*" do when
\* the wildcard is allowed; "!x" matches what differs from x; x matches x
ReferenceMatch(value, pat, allowWildcard) ==
    \/ pat = None
    \/ pat # None /\ allowWildcard /\ pat \in {S_all, S_star}
    \/ pat # None /\ Len(pat) > 0 /\ Head(pat) = "!" /\ value # Tail(pat)
    \/ pat # None /\ (Len(pat) = 0 \/ Head(pat) # "!") /\ value = pat

\* C4: _match_pattern returns what the reference matcher gives, for every value and
\* every pattern.
C4_MatchPatternIsReference ==
    mp.called =>
        /\ mp.exc = "none"
        /\ mp.ret = ReferenceMatch(mp.value, mp.pattern, mp.special_all)

\* C5: "all" and "*" match every value only with special_all, which _do_match sets
\* for fromhost and tohost alone: as the pattern of event_type or entity, "all"
\* matches the value "all" and no other.
C5_WildcardOnlyForHosts ==
    /\ (mp.called /\ mp.pattern \in {S_all, S_star}) =>
            /\ mp.exc = "none"
            /\ mp.ret = (mp.special_all \/ mp.value = mp.pattern)
    /\ (ep.constructed /\ ep.split_ok) =>
            /\ pattern = EventPattern(S_all, None, None, None) => ep.matches
            /\ pattern = EventPattern(None, S_all, None, None) => ep.matches
            /\ pattern = EventPattern(None, None, S_all, None) =>
                    (ep.matches <=> segments[4] = S_all)
            /\ pattern = EventPattern(None, None, None, S_all) =>
                    (ep.matches <=> (Len(segments) = 5 /\ segments[5] = S_all))

C5_Witness ==
    /\ ep.constructed /\ ep.split_ok
    /\ pattern = EventPattern(None, None, S_all, None)
    /\ ep.event_type = S_state
    /\ ~ep.matches

\* one per-field match holds: the call returned True
Holds(r) == r.exc = "none" /\ r.ret

\* C6: a parsed topic matches exactly when the four per-field matches hold, of
\* fromhost and tohost with the wildcard, of event_type and entity without; a
\* pattern with no field set matches every parsed topic.
C6_MatchIsConjunction ==
    (ep.constructed /\ ep.split_ok) =>
        LET p == PatternFields(pattern) IN
        /\ ep.matches <=>
            /\ Holds(_match_pattern(ep.fromhost, p.pattern_fromhost, TRUE))
            /\ Holds(_match_pattern(ep.tohost, p.pattern_tohost, TRUE))
            /\ Holds(_match_pattern(ep.event_type, p.pattern_event_type, FALSE))
            /\ Holds(_match_pattern(ep.entity, p.pattern_entity, FALSE))
        /\ p = EventPattern(None, None, None, None) => ep.matches

C6_Witness ==
    /\ ep.constructed /\ ep.split_ok /\ ep.matches
    /\ pattern = EventPattern(S_h, Bang(S_h), S_state, S_all)

---------------------------------------------------------------------------
(* The dispatcher alone, as test_dispatcher drives it *)

Names == {"name", "a", "b"}
CallerCallbacks == {"None", "callback"}
AnyTopic == EventPattern(None, None, None, None)
DispatcherPatterns ==
    {AnyTopic,
     EventPattern(Bang(S_h), None, S_state, None),
     EventPattern(S_h, None, None, S_empty)}
DispatcherPayloads == {S_1}

DispatcherTopics ==
    {<<MQTT_DEFAULT_BASE_TOPIC, S_h, S_g, S_state, S_e>>,
     <<MQTT_DEFAULT_BASE_TOPIC, S_g, S_h, S_state>>,
     <<MQTT_DEFAULT_BASE_TOPIC, S_g, S_state>>,
     <<S_g, S_g, S_h, S_state, S_e>>}

Call(op, name, pat, callback, topic, payload) ==
    [op |-> op, name |-> name, pattern |-> pat, callback |-> callback,
     topic |-> topic, payload |-> payload]

NoWorld == [my_hostname |-> None, published |-> <<>>, store |-> <<>>, log |-> <<>>]

partsIdle ==
    /\ segments = <<>>
    /\ event = None
    /\ pattern = NoPattern
    /\ ep = NotConstructed
    /\ mp = NoCall

\* EventListenerDispatcher(adapi, mqtt_base_topic)
InitDispatcher ==
    /\ mqtt_base_topic = MQTT_DEFAULT_BASE_TOPIC
    /\ partsIdle
    /\ dispIdle
    /\ syncIdle
    /\ restIdle

\* dispatcher.add_listener(name, pattern, callback)
AddListener ==
    \E name \in Names, p \in DispatcherPatterns, callback \in CallerCallbacks :
        \E r \in {add_listener(listeners, name, p, callback)} :
        /\ listeners' = r.listeners
        /\ call' = Call("add_listener", name, p, callback, None, None)
        /\ pre' = listeners
        /\ exc' = r.exc
        /\ invoked' = <<>>
        /\ results' = <<>>
        /\ logged' = r.log
        /\ segments' = <<>>
        /\ UNCHANGED <<mqtt_base_topic, event, pattern, ep, mp, syncVars, restVars>>

\* dispatcher.remove_listener(name)
RemoveListener ==
    \E name \in Names :
        \E r \in {remove_listener(listeners, name)} :
        /\ listeners' = r.listeners
        /\ call' = Call("remove_listener", name, NoPattern, "None", None, None)
        /\ pre' = listeners
        /\ exc' = r.exc
        /\ invoked' = <<>>
        /\ results' = <<>>
        /\ logged' = r.log
        /\ segments' = <<>>
        /\ UNCHANGED <<mqtt_base_topic, event, pattern, ep, mp, syncVars, restVars>>

\* dispatcher.dispatch(mq_event, payload)
Dispatch ==
    \E pieces \in DispatcherTopics, payload \in DispatcherPayloads :
        \E r \in {dispatch(listeners, mqtt_base_topic, join(pieces), payload,
                             NoWorld)} :
        /\ call' = Call("dispatch", "", NoPattern, "None", join(pieces), payload)
        /\ segments' = pieces
        /\ pre' = listeners
        /\ exc' = r.exc
        /\ invoked' = r.invoked
        /\ results' = IF r.exc = "none" THEN r.results ELSE <<>>
        /\ logged' = r.w.log
        /\ UNCHANGED <<mqtt_base_topic, listeners, event, pattern, ep, mp, syncVars,
                       restVars>>

NextDispatcher == AddListener \/ RemoveListener \/ Dispatch

SpecDispatcher == InitDispatcher /\ [][NextDispatcher]_vars

---------------------------------------------------------------------------
(* SyncEntitiesViaMqtt: start-up and the inbound path *)

\* the most messages published in one run
MaxPublished == 2

Hosts == {S_h, S_g}
S_e_h == <<"e", "_", "h">>

Payloads == {S_on, S_1}

\* the well-formed topics over the values the listeners tell apart (hosts, "state"
\* and "ping", an entity with and without a host suffix), and three malformed ones
SyncTopics ==
    {<<MQTT_DEFAULT_BASE_TOPIC, f, t, y>> :
        f \in Hosts, t \in {S_h, S_state}, y \in {S_state, S_ping, S_e}}
    \cup
    {<<MQTT_DEFAULT_BASE_TOPIC, f, t, y, e>> :
        f \in Hosts, t \in {S_h, S_state}, y \in {S_state, S_ping, S_e},
        e \in {S_e, S_e_h}}
    \cup
    {<<MQTT_DEFAULT_BASE_TOPIC, S_g, S_state>>,
     <<MQTT_DEFAULT_BASE_TOPIC, S_g, S_h, S_state, S_e, S_h>>,
     <<S_g, S_g, S_h, S_state, S_e>>}

InitSync ==
    /\ mqtt_base_topic = MQTT_DEFAULT_BASE_TOPIC
    /\ my_hostname \in Hosts
    /\ initialized = FALSE
    /\ scheduled = {}
    /\ published = <<>>
    /\ store = <<>>
    /\ state_entities = None
    /\ _state_listeners = <<>>
    /\ services = {}
    /\ partsIdle
    /\ dispIdle
    /\ restIdle

\* the three add_listener calls of initialize, on the new dispatcher
StartupListeners(host) ==
    LET r1 == add_listener(<<>>, "print all", AnyTopic, "None")
        r2 == add_listener(r1.listeners, "ping/pong",
                           EventPattern(Bang(host), None, S_ping, None),
                           "ping_callback")
        r3 == add_listener(r2.listeners, "inbound state",
                           EventPattern(Bang(host), None, S_state, None),
                           "inbound_state_callback")
    IN  r3.listeners

\* SyncEntitiesViaMqtt.initialize
initialize ==
    /\ ~initialized
    /\ initialized' = TRUE
    /\ listeners' = StartupListeners(my_hostname)
    /\ scheduled' = {"register_state_entities", "register_sync_service",
                     "test_sync_service"}
    /\ call' = Call("initialize", "", NoPattern, "None", None, None)
    /\ pre' = <<>>
    /\ exc' = "none"
    /\ invoked' = <<>>
    /\ results' = <<>>
    /\ logged' = <<"Initialize">>
    /\ UNCHANGED <<mqtt_base_topic, partsVars, my_hostname, published, store,
                   state_entities, _state_listeners, services, restVars>>

\* mq_listener(event, data, kwargs): dispatch(data["topic"], data["payload"])
mq_listener ==
    /\ initialized
    /\ Len(published) < MaxPublished
    /\ \E pieces \in SyncTopics, payload \in Payloads :
        \E r \in {dispatch(listeners, mqtt_base_topic, join(pieces), payload,
                             [my_hostname |-> my_hostname, published |-> published,
                              store |-> store, log |-> <<"mq_listener">>])} :
        /\ call' = Call("mq_listener", "", NoPattern, "None", join(pieces), payload)
        /\ segments' = pieces
        /\ pre' = listeners
        /\ exc' = r.exc
        /\ invoked' = r.invoked
        /\ results' = IF r.exc = "none" THEN r.results ELSE <<>>
        /\ logged' = r.w.log
        /\ published' = r.w.published
        /\ store' = r.w.store
        /\ UNCHANGED <<mqtt_base_topic, listeners, event, pattern, ep, mp,
                       my_hostname, initialized, scheduled, state_entities,
                       _state_listeners, services, restVars>>

NextSync == initialize \/ mq_listener

SpecSync == InitSync /\ [][NextSync]_vars

---------------------------------------------------------------------------
(* Claims about dispatch and the registry *)

TimesInvoked(name) == Cardinality({i \in 1..Len(invoked) : invoked[i].name = name})

\* the listeners that initialize registers with fromhost "!" + my_hostname, each
\* with the event_type its pattern asks for
SelfExcluding == {<<"ping/pong", S_ping>>, <<"inbound state", S_state>>}

\* C7: a listener registered with fromhost pattern "!" + my_hostname is not invoked
\* for a message whose fromhost is my_hostname, and is invoked, once, for every
\* message from another host whose event_type is the one its pattern asks for.
C7_SelfExclusion ==
    /\ initialized =>
        \A i \in 1..Len(listeners) :
            listeners[i].name \in {l[1] : l \in SelfExcluding} =>
                listeners[i].pattern.pattern_fromhost = Bang(my_hostname)
    /\ (call.op = "mq_listener" /\ WellFormed) =>
        \A l \in SelfExcluding :
            /\ segments[2] = my_hostname => TimesInvoked(l[1]) = 0
            /\ (segments[2] # my_hostname /\ segments[4] = l[2]) =>
                    TimesInvoked(l[1]) = 1

C7_Witness ==
    /\ call.op = "mq_listener" /\ WellFormed
    /\ segments[2] = my_hostname /\ segments[4] = S_state /\ Len(segments) = 5
    /\ Len(invoked) = 1 /\ invoked[1].name = "print all"

\* whether pattern p matches the topic built from `segments`, by the reference
\* matcher
ReferenceMatches(p) ==
    /\ ReferenceMatch(segments[2], p.pattern_fromhost, TRUE)
    /\ ReferenceMatch(segments[3], p.pattern_tohost, TRUE)
    /\ ReferenceMatch(segments[4], p.pattern_event_type, FALSE)
    /\ ReferenceMatch(IF Len(segments) = 5 THEN segments[5] ELSE None,
                      p.pattern_entity, FALSE)

\* what the caller's callbacks return
ExpectedReturn(callback) ==
    IF callback = "default_callback" THEN ListOfNone ELSE call.payload

\* C8: dispatch on a parsed topic invokes the registered listeners whose pattern
\* matches, in registration order, each once, and returns their return values in
\* that order: as many as there are matching listeners.
C8_DispatchFanOut ==
    (call.op = "dispatch" /\ WellFormed) =>
        LET matching == SelectSeq(pre, LAMBDA l : ReferenceMatches(l.pattern)) IN
        /\ exc = "none"
        /\ Len(invoked) = Len(matching)
        /\ Len(results) = Len(matching)
        /\ \A i \in 1..Len(matching) :
            /\ i <= Len(invoked) => invoked[i].name = matching[i].name
            /\ i <= Len(results) => results[i] = ExpectedReturn(matching[i].callback)

\* C9: for a topic that does not parse, dispatch invokes no callback, whatever the
\* registered patterns, and returns the empty list.
C9_MalformedInvokesNothing ==
    (call.op = "dispatch" /\ ~WellFormed) =>
        /\ exc = "none"
        /\ invoked = <<>>
        /\ results = <<>>

C9_Witness ==
    /\ call.op = "dispatch" /\ ~WellFormed
    /\ Len(pre) = 3
    /\ pre[1].pattern = EventPattern(S_h, None, None, S_empty)
    /\ pre[2].pattern = AnyTopic
    /\ invoked = <<>> /\ results = <<>> /\ exc = "none"

Entries(d) == {d[i] : i \in 1..Len(d)}

\* C10: add_listener with a registered name completes without error and leaves one
\* entry for that name, with the new pattern and callback; the other entries are
\* unchanged.
C10_ReRegisterReplaces ==
    (call.op = "add_listener" /\ call.name \in DictKeys(pre)) =>
        /\ exc = "none"
        /\ Cardinality({i \in 1..Len(listeners) : listeners[i].name = call.name}) = 1
        /\ EventListener(call.name, call.pattern, CallbackOrDefault(call.callback))
                \in Entries(listeners)
        /\ {l \in Entries(listeners) : l.name # call.name}
                = {l \in Entries(pre) : l.name # call.name}

\* C11: remove_listener(name) does not raise; afterwards the registry is the previous
\* registry without the entry for name: gone when it was there, and the registry
\* unchanged when it was not.
C11_RemoveDeletesNamed ==
    call.op = "remove_listener" =>
        /\ exc = "none"
        /\ listeners = SelectSeq(pre, LAMBDA l : l.name # call.name)

---------------------------------------------------------------------------
(* entity_add_hostname and entity_split_hostname on bounded inputs *)

\* the longest entity id and the longest host name tried, in characters
MaxIdLen == 3
MaxHostLen == 3

\* a letter, the delimiter, and the one character the host group of the regex refuses
IdChars == {"e", "_", "#"}
\* host names: SCHEMA refuses "-" alone, so "_" may occur anywhere in my_hostname
HostChars == {"h", "_"}

StringsOver(chars, n) == UNION {[1..k -> chars] : k \in 1..n}

EntityIds == StringsOver(IdChars, MaxIdLen)
HostNames == StringsOver(HostChars, MaxHostLen)

InitEntity ==
    /\ mqtt_base_topic = MQTT_DEFAULT_BASE_TOPIC
    /\ \E e \in EntityIds, h \in HostNames :
            en = [NoCodec EXCEPT !.entity = e, !.host = h]
    /\ partsIdle
    /\ dispIdle
    /\ syncIdle
    /\ netIdle
    /\ appIdle

\* self.entity_add_hostname(entity, host)
CallEntityAddHostname ==
    /\ en.entity # None
    /\ en.added = None
    /\ ~en.called
    /\ en' = [en EXCEPT !.added = entity_add_hostname(en.entity, en.host)]
    /\ UNCHANGED <<mqtt_base_topic, partsVars, dispVars, syncVars, netVars, appVars>>

\* self.entity_split_hostname(..), of the entity id itself or of what
\* entity_add_hostname returned
CallEntitySplitHostname ==
    /\ en.entity # None
    /\ ~en.called
    /\ \E arg \in {IF en.added = None THEN en.entity ELSE en.added} :
       \E r \in {entity_split_hostname(arg)} :
            en' = [en EXCEPT !.called = TRUE, !.arg = arg, !.exc = r.exc,
                             !.ret = <<r.entity, r.host>>]
    /\ UNCHANGED <<mqtt_base_topic, partsVars, dispVars, syncVars, netVars, appVars>>

NextEntity == CallEntityAddHostname \/ CallEntitySplitHostname

SpecEntity == InitEntity /\ [][NextEntity]_vars

---------------------------------------------------------------------------
(* Claims about the entity names, under SpecEntity *)

\* an id that ends in "_" and a token: some "_" of it has characters after it
EndsInToken(id) == \E i \in 1..(Len(id) - 1) : id[i] = "_"

\* C12: entity_split_hostname(entity_add_hostname(id, host)) = (id, host) for every id
\* that does not end in a "_" + token suffix and every non-empty host without "/" and
\* "#", the hosts that contain "_" included.
C12_SplitInvertsAdd ==
    (en.called /\ en.added # None /\ ~EndsInToken(en.entity)) =>
        /\ en.exc = "none"
        /\ en.ret = <<en.entity, en.host>>

\* C13: entity_split_hostname returns (entity, None) for every entity id that carries
\* no host suffix: the id of a local entity, which entity_add_hostname did not build
\* ("light.local_light" is one: here "e_e", split before any host was added).
C13_LocalIdHasNoHost ==
    (en.called /\ en.added = None) => en.ret = <<en.arg, None>>

---------------------------------------------------------------------------
(* Claims about the inbound path, under SpecSync *)

\* the invocations of the "inbound state" listener among inv
InboundState(inv) == {inv[i] : i \in {j \in 1..Len(inv) : inv[j].name = "inbound state"}}

\* an entity field that is there and that entity_split_hostname gives no host for
DecodesToNoHost(entity) ==
    entity # None /\ entity_split_hostname(entity).host = None

MirroredOnce(id) ==
    \E i \in 1..Len(id) :
        /\ id[i] = "_"
        /\ DecodesToNoHost(SubSeq(id, 1, i - 1))
        /\ SubSeq(id, i + 1, Len(id)) \in Hosts \ {my_hostname}

\* C15: an inbound state message whose entity decodes to a host writes nothing to the
\* store and publishes nothing; and every id in the store is a base id with one host
\* suffix, never the mirror of a mirror.
C15_NoMirrorOfMirror ==
    /\ [][(/\ call'.op = "mq_listener"
           /\ Len(segments') = 5
           /\ segments'[1] = mqtt_base_topic
           /\ segments'[4] = S_state
           /\ entity_split_hostname(segments'[5]).host # None)
          => (store' = store /\ published' = published)]_vars
    /\ [](\A id \in DOMAIN store : MirroredOnce(id))

C15_Witness ==
    /\ call.op = "mq_listener" /\ exc = "none"
    /\ Len(segments) = 5 /\ segments[4] = S_state /\ segments[5] = S_e_h
    /\ segments[2] # my_hostname
    /\ InboundState(invoked) # {}
    /\ DOMAIN store # {}
    /\ S_e_h \o <<"_">> \o segments[2] \notin DOMAIN store

---------------------------------------------------------------------------
(* SyncEntitiesViaMqtt: the outbound path and the sync service *)

\* a key that a kwargs dict does not hold
Absent == <<"absent">>

S_e_e == <<"e", "_", "e">>
S_h_g == <<"h", "_", "g">>
S_light_office_seattle ==
    <<"l", "i", "g", "h", "t", ".", "o", "f", "f", "i", "c", "e", "_",
      "s", "e", "a", "t", "t", "l", "e">>

\* state_callback of register_state_entities
state_callback(entity, attribute, old, new, w) ==
    [w EXCEPT
        !.log = Append(@, "state_callback()"),
        !.published = Append(@, Message(
            join(<<mqtt_base_topic, w.my_hostname, S_state, entity>>), new))]

\* the callbacks that a state change of `entity` starts: one per listen_state handle
\* on it, in the order of registration
RECURSIVE StateCallbacks(_, _, _, _, _, _)
StateCallbacks(handles, i, entity, old, new, w) ==
    IF i > Len(handles) THEN w
    ELSE StateCallbacks(handles, i + 1, entity, old, new,
            IF handles[i] = entity
            THEN state_callback(entity, "state", old, new, w)
            ELSE w)

\* the loop of register_state_entities: a listen_state handle per list item; the
\* loop over None, when state_for_entities is not configured, raises TypeError
RegisterLoop(entities, handles) ==
    IF entities = None
    THEN [exc |-> "TypeError", handles |-> handles, log |-> <<>>]
    ELSE [exc |-> "none", handles |-> handles \o entities,
          log |-> [i \in 1..Len(entities) |-> "** registered"]]

\* sync_service_callback that takes an unexpected state for "off"
sync_service_callback_lenient(namespace, service, action, kwargs, w) ==
    LET w1 == [w EXCEPT !.log = Append(@, "sync_service_callback")] IN
    IF \/ namespace # "default"
       \/ action \notin {"set_state", "toggle_state"}
       \/ kwargs.entity_id = Absent
    THEN [exc |-> "RuntimeError", w |-> w1]
    ELSE
        LET local_entity == kwargs.entity_id
            s == entity_split_hostname(local_entity)
        IN
        IF s.exc # "none" THEN [exc |-> s.exc, w |-> w1]
        ELSE IF s.host = None THEN [exc |-> "RuntimeError", w |-> w1]
        ELSE IF action = "set_state" /\ kwargs.value = Absent
        THEN [exc |-> "KeyError", w |-> w1]
        ELSE
            LET value == IF action = "set_state" THEN kwargs.value
                         ELSE IF local_entity \notin DOMAIN w.store THEN S_on
                         ELSE IF w.store[local_entity] = S_on THEN S_off
                         ELSE S_on
            IN  [exc |-> "none",
                 w |-> [w1 EXCEPT !.published = Append(@, Message(
                            join(<<mqtt_base_topic, s.host, S_state, s.entity>>),
                            value))]]

\* sync_service_callback that also writes the new value to the local mirror
sync_service_callback_local_write(namespace, service, action, kwargs, w) ==
    LET w1 == [w EXCEPT !.log = Append(@, "sync_service_callback")] IN
    IF \/ namespace # "default"
       \/ action \notin {"set_state", "toggle_state"}
       \/ kwargs.entity_id = Absent
    THEN [exc |-> "RuntimeError", w |-> w1]
    ELSE
        LET local_entity == kwargs.entity_id
            s == entity_split_hostname(local_entity)
        IN
        IF s.exc # "none" THEN [exc |-> s.exc, w |-> w1]
        ELSE IF s.host = None THEN [exc |-> "RuntimeError", w |-> w1]
        ELSE IF action = "set_state" /\ kwargs.value = Absent
        THEN [exc |-> "KeyError", w |-> w1]
        ELSE IF action = "toggle_state" /\ local_entity \notin DOMAIN w.store
        THEN [exc |-> "RuntimeError", w |-> w1]
        ELSE IF action = "toggle_state" /\ w.store[local_entity] \notin {S_on, S_off}
        THEN [exc |-> "RuntimeError", w |-> w1]
        ELSE
            LET value == IF action = "set_state" THEN kwargs.value
                         ELSE IF w.store[local_entity] = S_on THEN S_off
                         ELSE S_on
            IN  [exc |-> "none",
                 w |-> [w1 EXCEPT !.published = Append(@, Message(
                            join(<<mqtt_base_topic, s.host, S_state, s.entity>>),
                            value)),
                                  !.store = (local_entity :> value) @@ @]]

\* sync_service_callback of register_sync_service
sync_service_callback(namespace, service, action, kwargs, w) ==
    LET w1 == [w EXCEPT !.log = Append(@, "sync_service_callback")] IN
    IF \/ namespace # "default"
       \/ action \notin {"set_state", "toggle_state"}
       \/ kwargs.entity_id = Absent
    THEN [exc |-> "RuntimeError", w |-> w1]
    ELSE
        LET local_entity == kwargs.entity_id
            s == entity_split_hostname(local_entity)
        IN
        IF s.exc # "none" THEN [exc |-> s.exc, w |-> w1]
        ELSE IF s.host = None THEN [exc |-> "RuntimeError", w |-> w1]
        ELSE IF action = "set_state" /\ kwargs.value = Absent
        THEN [exc |-> "KeyError", w |-> w1]
        ELSE IF action = "toggle_state" /\ local_entity \notin DOMAIN w.store
        THEN [exc |-> "RuntimeError", w |-> w1]
        ELSE IF action = "toggle_state" /\ w.store[local_entity] \notin {S_on, S_off}
        THEN [exc |-> "RuntimeError", w |-> w1]
        ELSE
            LET value == IF action = "set_state" THEN kwargs.value
                         ELSE IF w.store[local_entity] = S_on THEN S_off
                         ELSE S_on
            IN  [exc |-> "none",
                 w |-> [w1 EXCEPT !.published = Append(@, Message(
                            join(<<mqtt_base_topic, s.host, S_state, s.entity>>),
                            value))]]

\* the most messages published before the last state change or service call of a run
MaxOutbound == 1

\* the entities of this host: "e" is the one that may be configured as shareable,
\* "e_e" is a local entity whose own name holds an underscore
LocalIds == {S_e, S_e_e}
\* the hosts whose entities are mirrored here: "h", and a host with an underscore
RemoteHosts == {S_h, S_h_g}
RemoteIds == {S_e}
MirroredIds == {entity_add_hostname(b, h) : b \in RemoteIds, h \in RemoteHosts}

StateValues == {S_on, S_off}
StateEntityConfigs == {None, <<S_e>>, <<S_e, S_e>>}

\* the state store outlives the app: at start-up it holds no mirror yet, or the
\* mirrors that earlier inbound messages left there
InitStores ==
    {<<>>} \cup {[id \in MirroredIds |-> v] : v \in {S_on, S_off, S_1}}

Kwargs(entity_id, value) == [entity_id |-> entity_id, value |-> value]

ServiceCalls ==
    {[namespace |-> "default", action |-> a, kwargs |-> Kwargs(e, S_on)] :
        a \in {"set_state", "toggle_state", "change_state"},
        e \in {Absent} \cup LocalIds \cup MirroredIds}
    \cup
    {[namespace |-> "default", action |-> "set_state", kwargs |-> Kwargs(S_e_h, Absent)],
     [namespace |-> "mqtt", action |-> "set_state", kwargs |-> Kwargs(S_e_h, S_on)],
     [namespace |-> "mqtt", action |-> "toggle_state", kwargs |-> Kwargs(S_e_h, Absent)]}

InitOutbound ==
    /\ mqtt_base_topic = MQTT_DEFAULT_BASE_TOPIC
    /\ my_hostname = S_g
    /\ initialized = FALSE
    /\ scheduled = {}
    /\ published = <<>>
    /\ store \in InitStores
    /\ state_entities \in StateEntityConfigs
    /\ _state_listeners = <<>>
    /\ services = {}
    /\ partsIdle
    /\ dispIdle
    /\ restIdle

Self == [my_hostname |-> my_hostname, published |-> published, store |-> store,
         log |-> <<>>]

\* register_state_entities(kwargs), which run_in starts
register_state_entities ==
    /\ "register_state_entities" \in scheduled
    /\ scheduled' = scheduled \ {"register_state_entities"}
    /\ \E r \in {RegisterLoop(state_entities, _state_listeners)} :
        /\ _state_listeners' = r.handles
        /\ exc' = r.exc
        /\ logged' = r.log
    /\ call' = [op |-> "register_state_entities"]
    /\ pre' = listeners
    /\ invoked' = <<>>
    /\ results' = <<>>
    /\ UNCHANGED <<mqtt_base_topic, partsVars, listeners, my_hostname, initialized,
                   published, store, state_entities, services, restVars>>

\* register_sync_service(kwargs), which run_in starts: the two register_service calls
register_sync_service ==
    /\ "register_sync_service" \in scheduled
    /\ scheduled' = scheduled \ {"register_sync_service"}
    /\ services' = services \cup {"sync_entities_via_mqtt/change_state",
                                  "sync_entities_via_mqtt/toggle_state"}
    /\ call' = [op |-> "register_sync_service"]
    /\ pre' = listeners
    /\ exc' = "none"
    /\ invoked' = <<>>
    /\ results' = <<>>
    /\ logged' = <<"register_service: sync_entities_via_mqtt -- change_state, toggle_state">>
    /\ UNCHANGED <<mqtt_base_topic, partsVars, listeners, my_hostname, initialized,
                   published, store, state_entities, _state_listeners, restVars>>

\* a call of sync_service_callback, with the world it leaves
ServiceStep(c, r) ==
    /\ call' = [op |-> "sync_service_callback", namespace |-> c.namespace,
                action |-> c.action, kwargs |-> c.kwargs]
    /\ pre' = listeners
    /\ exc' = r.exc
    /\ invoked' = <<>>
    /\ results' = <<>>
    /\ logged' = r.w.log
    /\ published' = r.w.published
    /\ store' = r.w.store
    /\ UNCHANGED <<mqtt_base_topic, partsVars, listeners, my_hostname, initialized,
                   state_entities, _state_listeners, services, restVars>>

\* test_sync_service(kwargs), which run_in starts a second after the two others:
\* call_service("sync_entities_via_mqtt/toggle_state", entity_id="light.office_seattle")
test_sync_service ==
    /\ scheduled = {"test_sync_service"}
    /\ "sync_entities_via_mqtt/toggle_state" \in services
    /\ scheduled' = {}
    /\ \E c \in {[namespace |-> "default", action |-> "toggle_state",
                  kwargs |-> Kwargs(S_light_office_seattle, Absent)]} :
       \E r \in {sync_service_callback(c.namespace, "sync_entities_via_mqtt",
                                       c.action, c.kwargs, Self)} :
            ServiceStep(c, r)

\* sync_service_callback(namespace, service, action, kwargs), once it is registered
SyncServiceCallback ==
    /\ services # {}
    /\ Len(published) < MaxOutbound
    /\ \E c \in ServiceCalls :
       \E r \in {sync_service_callback(c.namespace, "sync_entities_via_mqtt",
                                       c.action, c.kwargs, Self)} :
            /\ ServiceStep(c, r)
            /\ UNCHANGED scheduled

\* the service names a caller may try, and the action each one hands to its callback:
\* the part of the name after "/"
ServiceNames ==
    {"sync_entities_via_mqtt/set_state", "sync_entities_via_mqtt/toggle_state",
     "sync_entities_via_mqtt/change_state"}

ServiceAction(name) ==
    CASE name = "sync_entities_via_mqtt/set_state" -> "set_state"
      [] name = "sync_entities_via_mqtt/toggle_state" -> "toggle_state"
      [] name = "sync_entities_via_mqtt/change_state" -> "change_state"

\* self.call_service(name, namespace="default", **kwargs) by any app: the callback
\* registered under the name runs with the name's action; under a name that is not
\* registered no callback runs, and the caller gets a warning or an exception
call_service ==
    /\ initialized
    /\ Len(published) < MaxOutbound
    /\ \E name \in ServiceNames, kwargs \in {Kwargs(S_e_h, S_on), Kwargs(S_e, S_on)} :
        /\ call' = [op |-> "call_service", service |-> name, namespace |-> "default",
                    action |-> ServiceAction(name), kwargs |-> kwargs,
                    registered |-> name \in services]
        /\ IF name \in services
           THEN \E r \in {sync_service_callback("default", "sync_entities_via_mqtt",
                                ServiceAction(name), kwargs, Self)} :
                    /\ exc' = r.exc
                    /\ logged' = r.w.log
                    /\ published' = r.w.published
                    /\ store' = r.w.store
           ELSE /\ exc' \in {"none", "ServiceException"}
                /\ logged' = <<>>
                /\ UNCHANGED <<published, store>>
    /\ pre' = listeners
    /\ invoked' = <<>>
    /\ results' = <<>>
    /\ UNCHANGED <<mqtt_base_topic, partsVars, listeners, my_hostname, initialized,
                   scheduled, state_entities, _state_listeners, services, restVars>>

\* the state of a local entity changes to a new value: every listen_state handle on
\* the entity runs state_callback(entity, "state", old, new, kwargs)
StateChange ==
    /\ initialized
    /\ Len(published) < MaxOutbound
    /\ \E entity \in LocalIds, new \in StateValues :
       \E old \in {IF entity \in DOMAIN store THEN store[entity] ELSE None} :
        /\ new # old
        /\ \E w \in {StateCallbacks(_state_listeners, 1, entity, old, new,
                        [Self EXCEPT !.store = (entity :> new) @@ @])} :
            /\ store' = w.store
            /\ published' = w.published
            /\ logged' = w.log
        /\ call' = [op |-> "state_change", entity |-> entity, old |-> old, new |-> new]
    /\ pre' = listeners
    /\ exc' = "none"
    /\ invoked' = <<>>
    /\ results' = <<>>
    /\ UNCHANGED <<mqtt_base_topic, partsVars, listeners, my_hostname, initialized,
                   scheduled, state_entities, _state_listeners, services, restVars>>

NextOutbound ==
    \/ initialize
    \/ register_state_entities
    \/ register_sync_service
    \/ test_sync_service
    \/ SyncServiceCallback
    \/ call_service
    \/ StateChange

SpecOutbound == InitOutbound /\ [][NextOutbound]_vars

---------------------------------------------------------------------------
(* Claims about the outbound path and the sync service, under SpecOutbound *)

\* start-up is over: initialize and register_state_entities have run
StartedUp == initialized /\ "register_state_entities" \notin scheduled

Shareable(entity) ==
    state_entities # None /\ \E i \in 1..Len(state_entities) : state_entities[i] = entity

\* C16: after start-up, a state change of a configured shareable entity E to a new
\* value v publishes one message, with topic base/my_hostname/state/E and payload v;
\* a state change of an entity that is not configured publishes nothing.
C16_StateChangePublishesOnce ==
    [][(StartedUp /\ call'.op = "state_change") =>
            IF Shareable(call'.entity)
            THEN published' = Append(published, Message(
                    join(<<mqtt_base_topic, my_hostname, S_state, call'.entity>>),
                    call'.new))
            ELSE published' = published]_vars

\* the cases in which the claim has the service callback raise
MustRaise(c) ==
    \/ c.namespace # "default"
    \/ c.action \notin {"set_state", "toggle_state"}
    \/ c.kwargs.entity_id = Absent
    \/ /\ c.action = "toggle_state"
       /\ \/ c.kwargs.entity_id \notin DOMAIN store
          \/ store[c.kwargs.entity_id] \notin {S_on, S_off}

\* C18: sync_service_callback raises when the namespace is not "default", when the
\* action is neither "set_state" nor "toggle_state", when kwargs has no entity_id, and
\* when the action is toggle_state and the entity does not exist or its state is
\* neither "on" nor "off".
C18_ServiceRejects ==
    (call.op = "sync_service_callback" /\ MustRaise(call)) => exc # "none"

C18_Witness ==
    /\ call.op = "sync_service_callback"
    /\ call.namespace = "default" /\ call.action = "toggle_state"
    /\ call.kwargs.entity_id = S_e_h
    /\ S_e_h \in DOMAIN store /\ store[S_e_h] = S_1
    /\ exc = "RuntimeError"
    /\ published = <<>>

\* C19: set_state or toggle_state on the id of a local entity, one that mirrors
\* nothing, raises and publishes nothing, whether or not the id holds an underscore.
C19_LocalEntityRejected ==
    [][(/\ call'.op = "sync_service_callback"
        /\ call'.action \in {"set_state", "toggle_state"}
        /\ call'.kwargs.entity_id \in LocalIds)
       => (exc' # "none" /\ published' = published)]_vars

\* what toggle_state or set_state is to publish for the mirror of b on host h
Requested(c, b, h) ==
    Message(join(<<mqtt_base_topic, h, S_state, b>>),
            IF c.action = "set_state" THEN c.kwargs.value
            ELSE IF store[c.kwargs.entity_id] = S_on THEN S_off ELSE S_on)

\* C20: toggle_state on the mirror B_H of entity B of host H, when it exists with
\* state "on" ("off"), publishes one message, with payload "off" ("on") and topic
\* base/H/state/B; set_state with value v publishes one message with payload v and the
\* same topic.
C20_ServicePublishesToOrigin ==
    [][\A b \in RemoteIds, h \in RemoteHosts :
        (/\ call'.op = "sync_service_callback"
         /\ call'.namespace = "default"
         /\ call'.kwargs.entity_id = entity_add_hostname(b, h)
         /\ \/ /\ call'.action = "toggle_state"
               /\ call'.kwargs.entity_id \in DOMAIN store
               /\ store[call'.kwargs.entity_id] \in {S_on, S_off}
            \/ /\ call'.action = "set_state"
               /\ call'.kwargs.value # Absent)
        => /\ exc' = "none"
           /\ published' = Append(published, Requested(call', b, h))]_vars

---------------------------------------------------------------------------
(* Several hosts that run SyncEntitiesViaMqtt on one broker and one base topic *)

\* the most messages published, by the hosts and by other clients of the broker,
\* before the last state change, service call or foreign message of a run
MaxRunPublished == 1

\* the app of one host before initialize; state_for_entities names its entity "e"
NewNode ==
    [initialized |-> FALSE, scheduled |-> <<>>, listeners |-> <<>>,
     state_entities |-> <<S_e>>, _state_listeners |-> <<>>, services |-> {},
     published |-> <<>>, store |-> <<>>]

\* self of host h, as the callbacks see it
NodeSelf(h) ==
    [my_hostname |-> h, published |-> nodes[h].published, store |-> nodes[h].store,
     log |-> <<>>]

\* the broker hands each message to every host that has subscribed to base/#, the
\* publisher included, in the order of publication
Broadcast(w, msgs, subscribed) ==
    [k \in DOMAIN w |-> IF k \in subscribed THEN w[k] \o msgs ELSE w[k]]

Subscribed == {k \in DOMAIN nodes : nodes[k].initialized}

RECURSIVE PublishedBy(_)
PublishedBy(hs) ==
    IF hs = {} THEN 0
    ELSE LET h == CHOOSE x \in hs : TRUE IN
         Len(nodes[h].published) + PublishedBy(hs \ {h})

\* the messages published so far on the broker
PublishedInRun == PublishedBy(DOMAIN nodes) + Len(foreign)

\* what a handler of host h appended to its published messages
NewlyPublished(h, w) == SubSeq(w.published, Len(nodes[h].published) + 1, Len(w.published))

NodeCall(op, h, topic, payload) ==
    [op |-> op, host |-> h, topic |-> topic, payload |-> payload]

NodeStep(c, e, inv, res, log) ==
    /\ call' = c
    /\ exc' = e
    /\ invoked' = inv
    /\ results' = res
    /\ logged' = log
    /\ UNCHANGED <<mqtt_base_topic, partsVars, listeners, pre, syncVars, codecVars,
                   foreign, appVars>>

InitMirror ==
    /\ mqtt_base_topic = MQTT_DEFAULT_BASE_TOPIC
    /\ nodes = [h \in Hosts |-> NewNode]
    /\ wire = [h \in Hosts |-> <<>>]
    /\ foreign = <<>>
    /\ partsIdle
    /\ dispIdle
    /\ syncIdle
    /\ codecIdle
    /\ appIdle

\* initialize on host h: the listeners, the subscription, the three run_in calls
NodeInitialize(h) ==
    /\ ~nodes[h].initialized
    /\ nodes' = [nodes EXCEPT ![h].initialized = TRUE,
                              ![h].listeners = StartupListeners(h),
                              ![h].scheduled = <<"register_state_entities",
                                                 "register_sync_service",
                                                 "test_sync_service">>]
    /\ UNCHANGED wire
    /\ NodeStep(NodeCall("initialize", h, None, None), "none", <<>>, <<>>,
                <<"Initialize">>)

\* the next run_in callback of host h: the scheduler starts them in the order of
\* their times, register_state_entities and register_sync_service before
\* test_sync_service
NodeRunIn(h) ==
    /\ nodes[h].scheduled # <<>>
    /\ LET f == Head(nodes[h].scheduled)
           n == [nodes[h] EXCEPT !.scheduled = Tail(@)]
       IN
       CASE f = "register_state_entities" ->
                \E r \in {RegisterLoop(n.state_entities, n._state_listeners)} :
                    /\ nodes' = [nodes EXCEPT ![h] =
                                    [n EXCEPT !._state_listeners = r.handles]]
                    /\ UNCHANGED wire
                    /\ NodeStep(NodeCall(f, h, None, None), r.exc, <<>>, <<>>, r.log)
         [] f = "register_sync_service" ->
                /\ nodes' = [nodes EXCEPT ![h] =
                                [n EXCEPT !.services =
                                    {"sync_entities_via_mqtt/change_state",
                                     "sync_entities_via_mqtt/toggle_state"}]]
                /\ UNCHANGED wire
                /\ NodeStep(NodeCall(f, h, None, None), "none", <<>>, <<>>, <<>>)
         [] f = "test_sync_service" ->
                \E r \in {sync_service_callback("default", "sync_entities_via_mqtt",
                            "toggle_state", Kwargs(S_light_office_seattle, Absent),
                            NodeSelf(h))} :
                    /\ nodes' = [nodes EXCEPT ![h] =
                                    [n EXCEPT !.published = r.w.published]]
                    /\ wire' = Broadcast(wire, NewlyPublished(h, r.w), Subscribed)
                    /\ NodeStep(NodeCall(f, h, None, None), r.exc, <<>>, <<>>, r.w.log)

\* the state of entity "e" of host h changes, once the start-up callbacks of h have
\* run: its listen_state handles publish
NodeStateChange(h) ==
    /\ nodes[h].initialized
    /\ nodes[h].scheduled = <<>>
    /\ PublishedInRun < MaxRunPublished
    /\ \E entity \in {S_e}, new \in StateValues :
       \E old \in {IF entity \in DOMAIN nodes[h].store THEN nodes[h].store[entity]
                   ELSE None} :
        /\ new # old
        /\ \E w \in {StateCallbacks(nodes[h]._state_listeners, 1, entity, old, new,
                        [NodeSelf(h) EXCEPT !.store = (entity :> new) @@ @])} :
            /\ nodes' = [nodes EXCEPT ![h].store = w.store,
                                      ![h].published = w.published]
            /\ wire' = Broadcast(wire, NewlyPublished(h, w), Subscribed)
            /\ NodeStep([op |-> "state_change", host |-> h, entity |-> entity,
                         old |-> old, new |-> new], "none", <<>>, <<>>, w.log)

\* sync_service_callback on host h, for the mirror of entity "e" of another host,
\* once the start-up callbacks of h have run
NodeService(h) ==
    /\ nodes[h].services # {}
    /\ nodes[h].scheduled = <<>>
    /\ PublishedInRun < MaxRunPublished
    /\ \E a \in Hosts \ {h}, action \in {"set_state", "toggle_state"} :
       \E c \in {[namespace |-> "default", action |-> action,
                  kwargs |-> Kwargs(entity_add_hostname(S_e, a), S_on)]} :
       \E r \in {sync_service_callback(c.namespace, "sync_entities_via_mqtt",
                                       c.action, c.kwargs, NodeSelf(h))} :
        /\ nodes' = [nodes EXCEPT ![h].published = r.w.published]
        /\ wire' = Broadcast(wire, NewlyPublished(h, r.w), Subscribed)
        /\ NodeStep([op |-> "sync_service_callback", host |-> h,
                     namespace |-> c.namespace, action |-> c.action,
                     kwargs |-> c.kwargs], r.exc, <<>>, <<>>, r.w.log)

\* mq_listener on host h, for the next message the broker has for it
NodeDeliver(h) ==
    /\ nodes[h].initialized
    /\ wire[h] # <<>>
    /\ \E m \in {Head(wire[h])} :
       \E r \in {dispatch(nodes[h].listeners, mqtt_base_topic, m.topic, m.payload,
                          [NodeSelf(h) EXCEPT !.log = <<"mq_listener">>])} :
        /\ nodes' = [nodes EXCEPT ![h].store = r.w.store,
                                  ![h].published = r.w.published]
        /\ wire' = Broadcast([wire EXCEPT ![h] = Tail(@)], NewlyPublished(h, r.w),
                             Subscribed)
        /\ segments' = split(m.topic)
        /\ call' = NodeCall("mq_listener", h, m.topic, m.payload)
        /\ exc' = r.exc
        /\ invoked' = r.invoked
        /\ results' = IF r.exc = "none" THEN r.results ELSE <<>>
        /\ logged' = r.w.log
        /\ UNCHANGED <<mqtt_base_topic, event, pattern, ep, mp, listeners, pre,
                       syncVars, codecVars, foreign, appVars>>

\* the subscription of initialize is to base/#, so a host is handed what any client
\* of the broker publishes there: here a state message in the five-piece form
\* base/fromhost/tohost/state/entity that the listeners parse, or a ping
ForeignPublish ==
    /\ PublishedInRun < MaxRunPublished
    /\ Subscribed # {}
    /\ \E f \in Hosts, pieces \in {<<S_state, S_e>>, <<S_ping>>} :
       \E m \in {Message(join(<<mqtt_base_topic, f, S_all>> \o pieces), S_on)} :
        /\ foreign' = Append(foreign, m)
        /\ wire' = Broadcast(wire, <<m>>, Subscribed)
        /\ call' = NodeCall("publish", None, m.topic, m.payload)
        /\ exc' = "none"
        /\ invoked' = <<>>
        /\ results' = <<>>
        /\ logged' = <<>>
        /\ UNCHANGED <<mqtt_base_topic, partsVars, listeners, pre, syncVars,
                       codecVars, nodes, appVars>>

NextMirror ==
    \/ \E h \in Hosts :
            \/ NodeInitialize(h)
            \/ NodeRunIn(h)
            \/ NodeStateChange(h)
            \/ NodeService(h)
            \/ NodeDeliver(h)
    \/ ForeignPublish

SpecMirror == InitMirror /\ [][NextMirror]_vars

\* weak fairness of NodeDeliver(h), with ENABLED NodeDeliver(h) written out: a
\* message waiting for a subscribed host
DeliveryFair(h) ==
    \/ []<>~(nodes[h].initialized /\ wire[h] # <<>>)
    \/ []<><<NodeDeliver(h)>>_vars

\* the broker hands on every message it holds for a subscribed host, and AppDaemon
\* runs mq_listener for it
SpecMirrorLive == SpecMirror /\ \A h \in Hosts : DeliveryFair(h)

---------------------------------------------------------------------------
(* Claims about several hosts, under SpecMirror *)

\* C17: with hosts A and B on the same base topic, when the message that A publishes
\* for a change of its shareable entity E to v is delivered to B, the store of B
\* holds v under the mirrored id E + "_" + A once B has handled it.
C17_MirrorsEndToEnd ==
    [][\A a \in Hosts, b \in Hosts, e \in {S_e}, v \in StateValues :
        (/\ a # b
         /\ call'.op = "mq_listener"
         /\ call'.host = b
         /\ call'.topic = join(<<mqtt_base_topic, a, S_state, e>>)
         /\ call'.payload = v
         /\ \E i \in 1..Len(nodes[a].published) :
                nodes[a].published[i] = Message(call'.topic, v))
        => /\ entity_add_hostname(e, a) \in DOMAIN nodes'[b].store
           /\ nodes'[b].store[entity_add_hostname(e, a)] = v]_vars

\* a call through the service registry that the claim has publish: a registered
\* name, the id of an existing mirror whose state is "on" or "off", and a value
ValidRegisteredCall ==
    /\ call.op = "call_service"
    /\ call.registered
    /\ call.kwargs.entity_id \in MirroredIds
    /\ call.kwargs.entity_id \in DOMAIN store
    /\ store[call.kwargs.entity_id] \in {S_on, S_off}
    /\ call.kwargs.value # Absent

\* C21: once the service is registered, set_state and toggle_state are both among the
\* registered names, and a call under any registered name with the id of an existing
\* on/off mirror and a value publishes instead of raising.
C21_RegisteredActionsAccepted ==
    /\ services # {} =>
            {"sync_entities_via_mqtt/set_state", "sync_entities_via_mqtt/toggle_state"}
                \subseteq services
    /\ ValidRegisteredCall => (exc = "none" /\ published # <<>>)

\* C22: when host B has published, by set_state or toggle_state on the mirror E_A, the
\* message base/A/state/E with the requested value, and host A handles that message,
\* the state of E on A is the requested value.
C22_ControlRoundTrip ==
    [][\A a \in Hosts, b \in Hosts, e \in {S_e}, v \in StateValues :
        (/\ a # b
         /\ call'.op = "mq_listener"
         /\ call'.host = a
         /\ call'.topic = join(<<mqtt_base_topic, a, S_state, e>>)
         /\ call'.payload = v
         /\ \E i \in 1..Len(nodes[b].published) :
                nodes[b].published[i] = Message(call'.topic, v))
        => /\ e \in DOMAIN nodes'[a].store
           /\ nodes'[a].store[e] = v]_vars

---------------------------------------------------------------------------
(* More claims about the inbound path, under SpecSync *)

\* C23: for every topic of 4 or 5 pieces under the configured base, with or without
\* an entity, and every payload, dispatch on the dispatcher that initialize wired
\* returns without raising and has invoked every listener whose pattern matches.
C23_NoInboundCrash ==
    (call.op = "mq_listener" /\ WellFormed) =>
        /\ exc = "none"
        /\ \A i \in 1..Len(listeners) :
                ReferenceMatches(listeners[i].pattern) =>
                    TimesInvoked(listeners[i].name) = 1

\* the value a payload stands for as JSON text: the payloads tried hold one JSON
\* document, the number 1; "on" is not JSON
JsonValue(payload) ==
    CASE payload = S_1 -> <<"int", "1">>
      [] OTHER -> None

\* a state message without an entity from another host: the topic on which the
\* inbound listener raises, whatever the payload
NoEntityState ==
    /\ Len(segments) = 4
    /\ segments[1] = mqtt_base_topic
    /\ segments[4] = S_state
    /\ segments[2] # my_hostname

\* C24: every invoked callback receives the raw payload unchanged and, as the
\* decoded form, its JSON value when the payload is valid JSON and None when it
\* is not; a payload that cannot be decoded keeps no matching listener from being
\* invoked, and dispatch raises for no payload: it raises only on the topic that
\* makes it raise with a decodable payload too
C24_PayloadDecoded ==
    call.op = "mq_listener" =>
        /\ \A i \in 1..Len(invoked) :
                /\ invoked[i].payload = call.payload
                /\ invoked[i].payload_as_obj = JsonValue(call.payload)
        /\ JsonValue(call.payload) = None =>
                /\ exc # "none" => NoEntityState
                /\ WellFormed =>
                        \A i \in 1..Len(listeners) :
                            ReferenceMatches(listeners[i].pattern) =>
                                TimesInvoked(listeners[i].name) = 1

C24_Witness ==
    /\ call.op = "mq_listener"
    /\ call.payload = S_on
    /\ exc = "none"
    /\ Len(invoked) = 2
    /\ invoked[2].name = "inbound state"
    /\ invoked[2].payload = S_on
    /\ invoked[2].payload_as_obj = None

\* an inbound state message: a well-formed topic with event_type "state" from
\* another host
StateMessageDelivered ==
    /\ call.op = "mq_listener"
    /\ WellFormed
    /\ segments[4] = S_state
    /\ segments[2] # my_hostname

\* C26: delivering an inbound state message a second time, right after the first,
\* leaves the state store and the published messages as the first delivery left
\* them
C26_DuplicateDelivery ==
    StateMessageDelivered =>
        LET again == dispatch(listeners, mqtt_base_topic, call.topic, call.payload,
                              [my_hostname |-> my_hostname, published |-> published,
                               store |-> store, log |-> <<"mq_listener">>])
        IN  /\ again.w.store = store
            /\ again.w.published = published
            /\ again.exc = exc

C26_Witness ==
    /\ StateMessageDelivered
    /\ exc = "none"
    /\ call.payload = S_on
    /\ Len(invoked) = 2
    /\ invoked[2].name = "inbound state"
    /\ invoked[2].entity = S_e
    /\ \E k \in DOMAIN store : store[k] = S_on

---------------------------------------------------------------------------
(* Feedback between hosts, under SpecMirrorLive *)

\* no message is waiting for any host
Quiescent == \A h \in Hosts : wire[h] = <<>>

\* the entities of host h whose changes it publishes
Watched(h) ==
    IF nodes[h].state_entities = None THEN {}
    ELSE {nodes[h].state_entities[i] : i \in 1..Len(nodes[h].state_entities)}

\* a topic base/fromhost/tohost/ping, with or without an entity
IsPing(pieces) ==
    /\ Len(pieces) \in {4, 5}
    /\ pieces[1] = mqtt_base_topic
    /\ pieces[4] = S_ping

\* C27: no mirrored id being configured as shareable, handling a message on a
\* host publishes nothing, changes no watched entity of that host and puts no
\* message in flight, it only takes the handled message away (a ping apart, which
\* is answered); so the publishes a
\* state change causes are finitely many and, the messages being delivered,
\* the system comes to rest with no message in flight
C27_NoFeedbackLoop ==
    /\ [][\A h \in Hosts :
            (call'.op = "mq_listener" /\ call'.host = h /\ ~IsPing(segments')) =>
                /\ nodes'[h].published = nodes[h].published
                /\ \A k \in Watched(h) :
                        /\ (k \in DOMAIN nodes'[h].store) = (k \in DOMAIN nodes[h].store)
                        /\ k \in DOMAIN nodes[h].store =>
                                nodes'[h].store[k] = nodes[h].store[k]
                /\ wire' = [wire EXCEPT ![h] = Tail(@)]]_vars
    /\ <>[]Quiescent

\* a state message has been mirrored on a host that watches its entity "e", and
\* nothing is left in flight
C27_Witness ==
    /\ call.op = "mq_listener"
    /\ exc = "none"
    /\ Len(invoked) = 2
    /\ invoked[2].name = "inbound state"
    /\ Watched(call.host) = {S_e}
    /\ nodes[call.host]._state_listeners # <<>>
    /\ \E k \in DOMAIN nodes[call.host].store : k \notin Watched(call.host)
    /\ nodes[call.host].published = <<>>
    /\ Quiescent

---------------------------------------------------------------------------
(* The assertions of test_event_parts, under SpecParts *)

\* C25: with no pattern, EventParts matches a topic base/host/event_type and a
\* topic base/host/event_type/entity, and does not match a topic with one more
\* piece than base/host/event_type/entity
C25_TestEventParts ==
    (ep.constructed /\ pattern = NoPattern /\ Len(segments) \in {3, 4, 5}
     /\ segments[1] = mqtt_base_topic) =>
        /\ ep.exc = "none"
        /\ ep.matches = (Len(segments) \in {3, 4})

---------------------------------------------------------------------------
(* BackupHa (backup_ha.py): time in days, day 0 a Monday *)

\* self.day_to_run: Monday
day_to_run == 0

\* the largest number_to_keep configured
MaxKeep == 2
\* the last day of a run
MaxDay == 22

weekday(day) == day % 7

\* the modification days of the *.tar files found in /ha_backups at start-up: none,
\* one or two, none of them more than number_to_keep
BackupDirs == {<<>>, <<0>>, <<7>>, <<0, 7>>}

\* find_latest_backup_dt: the latest modification time, MINDATE (here -1) when the
\* directory holds no backup
RECURSIVE LatestOf(_, _)
LatestOf(files, latest) ==
    IF files = <<>> THEN latest
    ELSE LatestOf(Tail(files), IF Head(files) > latest THEN Head(files) ELSE latest)

find_latest_backup_dt(b) == LatestOf(b.files, -1)

\* run_backup: call_service("backup/create"); the backup integration writes one more
\* tar file into the backup directory
run_backup(b) == [b EXCEPT !.files = Append(@, b.now)]

InitBackup ==
    /\ mqtt_base_topic = MQTT_DEFAULT_BASE_TOPIC
    /\ \E keep \in 1..MaxKeep, files \in BackupDirs, day \in 8..14 :
        /\ Len(files) <= keep
        /\ backup_ha = [initialized |-> FALSE, test_mode |-> FALSE,
                        number_to_keep |-> keep, files |-> files, now |-> day,
                        run_in |-> FALSE, run_daily |-> FALSE, last |-> "none"]
    /\ gentlewakeup = [initialized |-> FALSE]
    /\ light_fade = [initialized |-> FALSE]
    /\ haven = [initialized |-> FALSE]
    /\ partsIdle
    /\ dispIdle
    /\ syncIdle
    /\ codecIdle
    /\ netIdle

BackupUnchanged ==
    UNCHANGED <<mqtt_base_topic, partsVars, dispVars, syncVars, codecVars, netVars,
                gentlewakeup, light_fade, haven>>

\* BackupHa.initialize: run_in(maybe_backup_now, 0) and run_daily(backup_weekly,
\* run_at_time); today's run_at_time is still to come, or has passed
BackupHa_initialize ==
    /\ ~backup_ha.initialized
    /\ \E t \in BOOLEAN, today \in BOOLEAN :
        backup_ha' = [backup_ha EXCEPT !.initialized = TRUE, !.test_mode = t,
                                       !.run_in = TRUE, !.run_daily = today,
                                       !.last = "initialize"]
    /\ BackupUnchanged

\* maybe_backup_now: a backup now when the latest one is more than 7 days old, or in
\* test mode
maybe_backup_now ==
    /\ backup_ha.initialized
    /\ backup_ha.run_in
    /\ LET b == [backup_ha EXCEPT !.run_in = FALSE, !.last = "maybe_backup_now"] IN
       backup_ha' = IF b.now - find_latest_backup_dt(b) > 7 \/ b.test_mode
                    THEN run_backup(b) ELSE b
    /\ BackupUnchanged

\* backup_weekly, which run_daily starts at run_at_time every day
backup_weekly ==
    /\ backup_ha.initialized
    /\ backup_ha.run_daily
    /\ LET b == [backup_ha EXCEPT !.run_daily = FALSE, !.last = "backup_weekly"] IN
       backup_ha' = IF weekday(b.now) # day_to_run THEN b ELSE run_backup(b)
    /\ BackupUnchanged

\* midnight: the next day begins once the callbacks due today have run
BackupNextDay ==
    /\ backup_ha.initialized
    /\ ~backup_ha.run_in
    /\ ~backup_ha.run_daily
    /\ backup_ha.now < MaxDay
    /\ backup_ha' = [backup_ha EXCEPT !.now = @ + 1, !.run_daily = TRUE,
                                      !.last = "midnight"]
    /\ BackupUnchanged

NextBackup ==
    \/ BackupHa_initialize
    \/ maybe_backup_now
    \/ backup_weekly
    \/ BackupNextDay

SpecBackup == InitBackup /\ [][NextBackup]_vars

\* C28: after any sequence of start-ups and scheduled backup runs the backup
\* directory holds at most number_to_keep backups
C28_KeepsNumberToKeep == Len(backup_ha.files) <= backup_ha.number_to_keep

---------------------------------------------------------------------------
(* GentleWakeup (gentlewakeup.py), with one alarm: time in days, day 0 a Monday *)

\* the last day of a run
MaxWakeDay == 6

Range(q) == {q[i] : i \in 1..Len(q)}

AllLights == {"light.a", "light.b"}
AllPlayers == {"Bedroom"}

\* the alarm configurations tried: weekdays or the weekend, no automatic turn-off
\* or one after 60 minutes, lights_on_nooff absent or naming a light
AlarmConfigs ==
    {[constrain_days_set |-> d, duration |-> m, lights |-> <<"light.a">>,
      lights_on_nooff |-> n, player_name |-> <<"Bedroom">>] :
        d \in {{0, 1, 2, 3, 4}, {5, 6}}, m \in {0, 60},
        n \in {Absent, <<"light.b">>, <<"light.a", "light.b">>}}

\* is_scheduled_day(config, date)
is_scheduled_day(config, day) == weekday(day) \in config.constrain_days_set

NooffLights(config) ==
    IF config.lights_on_nooff = Absent THEN {} ELSE Range(config.lights_on_nooff)

\* cb_gw_on(kwargs): the entity is set to "on" before the day is looked at
cb_gw_on(g) ==
    LET config == g.config
        g1 == [g EXCEPT !.app_entity = "on", !.last = "cb_gw_on", !.events = {}]
    IN
    IF ~is_scheduled_day(config, g.now) /\ ~g.test_mode
    THEN [g1 EXCEPT !.last = "cb_gw_on abort"]
    ELSE
        [g1 EXCEPT
            !.started = TRUE,
            !.events = IF g.test_mode THEN {}
                       ELSE {<<"light_fade.begin", l>> : l \in Range(config.lights)}
                            \cup {<<"sonos_app.play_favorite", p>> :
                                        p \in Range(config.player_name)},
            !.lights = [l \in AllLights |->
                            IF ~g.test_mode
                               /\ l \in Range(config.lights) \cup NooffLights(config)
                            THEN "on" ELSE @[l]],
            !.playing = [p \in AllPlayers |->
                            IF ~g.test_mode /\ p \in Range(config.player_name)
                            THEN TRUE ELSE @[p]],
            !.off_timers = @ + (IF config.duration > 0 THEN 1 ELSE 0)
                             + (IF g.test_mode THEN 1 ELSE 0)]

\* cb_gw_off that only logs what it would do
cb_gw_off_test_mode(g) ==
    [g EXCEPT !.app_entity = "off", !.last = "cb_gw_off", !.events = {},
              !.started = FALSE, !.off_timers = @ - 1]

\* cb_gw_off(kwargs): config, the alarm's dict, has no key "test_mode"
cb_gw_off(g) ==
    LET config == g.config IN
    [g EXCEPT
        !.app_entity = "off",
        !.last = "cb_gw_off",
        !.started = FALSE,
        !.off_timers = @ - 1,
        !.events = {<<"sonos_app.stop", p>> : p \in Range(config.player_name)},
        !.lights = [l \in AllLights |->
                        IF l \in Range(config.lights) THEN "off" ELSE @[l]],
        !.playing = [p \in AllPlayers |->
                        IF p \in Range(config.player_name) THEN FALSE ELSE @[p]]]

InitWakeup ==
    /\ mqtt_base_topic = MQTT_DEFAULT_BASE_TOPIC
    /\ \E c \in AlarmConfigs, t \in BOOLEAN, day \in 4..5,
          lit \in [AllLights -> {"off", "on"}] :
        gentlewakeup = [initialized |-> FALSE, test_mode |-> t, config |-> c,
                        app_entity |-> Absent, now |-> day, run_daily |-> FALSE,
                        run_in |-> FALSE, off_timers |-> 0, lights |-> lit,
                        playing |-> [p \in AllPlayers |-> FALSE],
                        events |-> {}, started |-> FALSE, last |-> "none"]
    /\ backup_ha = [initialized |-> FALSE]
    /\ light_fade = [initialized |-> FALSE]
    /\ haven = [initialized |-> FALSE]
    /\ partsIdle
    /\ dispIdle
    /\ syncIdle
    /\ codecIdle
    /\ netIdle

WakeupUnchanged ==
    UNCHANGED <<mqtt_base_topic, partsVars, dispVars, syncVars, codecVars, netVars,
                backup_ha, light_fade, haven>>

\* GentleWakeup.initialize: the entity "off", run_daily(cb_gw_on, time), and in test
\* mode run_in(cb_gw_on, 0); today's alarm time is still to come, or has passed
GentleWakeup_initialize ==
    /\ ~gentlewakeup.initialized
    /\ \E today \in BOOLEAN :
        gentlewakeup' = [gentlewakeup EXCEPT
                            !.initialized = TRUE, !.app_entity = "off",
                            !.run_daily = today, !.run_in = gentlewakeup.test_mode,
                            !.last = "initialize"]
    /\ WakeupUnchanged

\* cb_gw_on, started by run_daily at the alarm time
DailyCbGwOn ==
    /\ gentlewakeup.initialized
    /\ gentlewakeup.run_daily
    /\ gentlewakeup' = cb_gw_on([gentlewakeup EXCEPT !.run_daily = FALSE])
    /\ WakeupUnchanged

\* cb_gw_on, started by the run_in of test mode
TestCbGwOn ==
    /\ gentlewakeup.initialized
    /\ gentlewakeup.run_in
    /\ gentlewakeup' = cb_gw_on([gentlewakeup EXCEPT !.run_in = FALSE])
    /\ WakeupUnchanged

\* cb_gw_off, started by a run_in of cb_gw_on
CbGwOff ==
    /\ gentlewakeup.initialized
    /\ gentlewakeup.off_timers > 0
    /\ gentlewakeup' = cb_gw_off(gentlewakeup)
    /\ WakeupUnchanged

\* midnight: the next day begins once the timers of less than a day have run
WakeupNextDay ==
    /\ gentlewakeup.initialized
    /\ ~gentlewakeup.run_daily
    /\ ~gentlewakeup.run_in
    /\ gentlewakeup.off_timers = 0
    /\ gentlewakeup.now < MaxWakeDay
    /\ gentlewakeup' = [gentlewakeup EXCEPT !.now = @ + 1, !.run_daily = TRUE,
                                            !.events = {}, !.last = "midnight"]
    /\ WakeupUnchanged

NextWakeup ==
    \/ GentleWakeup_initialize
    \/ DailyCbGwOn
    \/ TestCbGwOn
    \/ CbGwOff
    \/ WakeupNextDay

SpecWakeup == InitWakeup /\ [][NextWakeup]_vars

\* the scheduler runs every callback whose time has come
SpecWakeupLive == SpecWakeup /\ WF_vars(CbGwOff)

\* C29: the app entity is "on" only while a wakeup that cb_gw_on started, by
\* triggering lights and Sonos, has not been turned off; a cb_gw_on that aborts
\* because today is not a scheduled day leaves the entity "off"
C29_OnOnlyWhileRunning ==
    gentlewakeup.initialized =>
        /\ gentlewakeup.app_entity = "on" => gentlewakeup.started
        /\ gentlewakeup.last = "cb_gw_on abort" => gentlewakeup.app_entity = "off"

\* cb_gw_on has just started a wakeup whose schedule.duration is positive
WakeupStarted ==
    /\ gentlewakeup.initialized
    /\ gentlewakeup.last = "cb_gw_on"
    /\ gentlewakeup.config.duration > 0

\* cb_gw_off has just run: the lights of lights.entity_id are off, sonos_app.stop
\* has been fired for every player, the entity is "off"
TurnedOff ==
    /\ gentlewakeup.initialized
    /\ gentlewakeup.last = "cb_gw_off"
    /\ \A l \in Range(gentlewakeup.config.lights) : gentlewakeup.lights[l] = "off"
    /\ \A p \in Range(gentlewakeup.config.player_name) :
            /\ <<"sonos_app.stop", p>> \in gentlewakeup.events
            /\ ~gentlewakeup.playing[p]
    /\ gentlewakeup.app_entity = "off"

---------------------------------------------------------------------------
(* The diagnostic of dispatch, under SpecDispatcher *)

NoMatchLogged ==
    \E i \in 1..Len(logged) : logged[i] = "could not find pattern to match"

\* C31: dispatch logs "could not find pattern to match" exactly when the topic
\* parsed and no listener matched; for a topic that does not parse it does not log
\* it
C31_DiagnosticOnlyWhenParsed ==
    (call.op = "dispatch" /\ exc = "none") =>
        (NoMatchLogged <=> (WellFormed /\ invoked = <<>>))

---------------------------------------------------------------------------
(* The frame of the service callback, under SpecOutbound *)

\* C32: a call of the service callback, through the registry or directly, never
\* changes the state store, and one that raises has published nothing
C32_ServiceFrame ==
    [][call'.op \in {"sync_service_callback", "call_service"} =>
            /\ store' = store
            /\ exc' # "none" => published' = published]_vars

\* a toggle of a mirror whose state is neither "on" nor "off" has been rejected
C32_Witness ==
    /\ call.op = "sync_service_callback"
    /\ call.action = "toggle_state"
    /\ exc = "RuntimeError"
    /\ call.kwargs.entity_id \in DOMAIN store
    /\ store[call.kwargs.entity_id] = S_1
    /\ published = <<>>

---------------------------------------------------------------------------
(* Ping and pong between hosts, under SpecMirrorLive *)

IsPong(pieces) ==
    /\ Len(pieces) \in {4, 5}
    /\ pieces[1] = mqtt_base_topic
    /\ pieces[4] = S_pong

\* C33: a host that is handed a ping of another host H publishes exactly one
\* message, base/myHost/H/pong with the payload of the ping; it publishes nothing
\* for a ping that bears its own name and nothing for a pong, so the publishes a
\* ping causes are finitely many and the system comes to rest
C33_PingPong ==
    /\ [][\A h \in Hosts :
            (call'.op = "mq_listener" /\ call'.host = h) =>
                /\ (IsPing(segments') /\ segments'[2] # h) =>
                        nodes'[h].published =
                            Append(nodes[h].published,
                                   Message(join(<<mqtt_base_topic, h, segments'[2],
                                                  S_pong>>), call'.payload))
                /\ ((IsPing(segments') /\ segments'[2] = h) \/ IsPong(segments')) =>
                        /\ nodes'[h].published = nodes[h].published
                        /\ wire' = [wire EXCEPT ![h] = Tail(@)]]_vars
    /\ <>[]Quiescent

\* the pong that answered a ping has itself been handled by the host that had
\* sent it, and nothing is in flight
C33_Witness ==
    /\ call.op = "mq_listener"
    /\ IsPong(segments)
    /\ segments[2] = call.host
    /\ exc = "none"
    /\ nodes[call.host].published =
            <<Message(join(<<mqtt_base_topic, call.host, segments[3], S_pong>>), S_on)>>
    /\ Quiescent

---------------------------------------------------------------------------
(* LightFade (light_fade.py).  A brightness read with get_state is <<n>>, or <<>> *)
(* for python's None, which a light that is off reports.  A float is kept as the  *)
(* fraction [num, den]; the values tried make no rounding tie.                    *)

\* cb_fade_begin: MIN_BRIGHTNESS
MIN_BRIGHTNESS == 26
\* calc_step: STEP_SHORTEST_DURATION and STEP_SIZE_MIN
STEP_SHORTEST_DURATION == 5
STEP_SIZE_MIN == 3
\* cb_fader: CLOSE_ENOUGH
CLOSE_ENOUGH == 5

\* the most light_fade.begin events of a run
MaxFades == 1

Max2(a, b) == IF a >= b THEN a ELSE b
Min2(a, b) == IF a <= b THEN a ELSE b
Abs(a) == IF a >= 0 THEN a ELSE -a

\* math.ceil(n / d), d > 0
Ceil(n, d) == IF n % d = 0 THEN n \div d ELSE (n \div d) + 1

\* round(n / d), n >= 0, d > 0: python rounds a tie to the even neighbour
Round(n, d) ==
    LET q == n \div d
        r == n % d
    IN  IF 2 * r > d THEN q + 1
        ELSE IF 2 * r < d THEN q
        ELSE IF q % 2 = 0 THEN q ELSE q + 1

\* val_to_pct(val): max(0, min(255, val or 0)) / 255, a fraction of 1
val_to_pct(val) ==
    [num |-> IF val = <<>> THEN 0 ELSE Max2(0, Min2(255, val[1])), den |-> 255]

\* pct_to_val(val): round(max(0, min(1.0, val / 100)) * 255)
pct_to_val(val) ==
    LET n == Max2(0, Min2(val.num, 100 * val.den)) IN
    Round(255 * n, 100 * val.den)

\* calc_step(bright_start, bright_end, duration): both divisions are float
\* divisions, which raise on a zero divisor
calc_step(bright_start, bright_end, duration) ==
    LET total == Abs(bright_end - bright_start)
        num_steps == Ceil(duration, STEP_SHORTEST_DURATION)
    IN
    IF duration = 0 \/ total = 0
    THEN [exc |-> "ZeroDivisionError", step_duration |-> 0, step_size |-> 0,
          num_steps |-> num_steps]
    ELSE
        LET step_size == Max2(Ceil(total * STEP_SHORTEST_DURATION, duration),
                              STEP_SIZE_MIN)
        IN  [exc |-> "none",
             step_duration |-> Max2(STEP_SHORTEST_DURATION,
                                    Ceil(duration * step_size, total)),
             step_size |-> step_size, num_steps |-> num_steps]

TurnOn(brightness) == [service |-> "turn_on", brightness |-> brightness]
TurnOff(brightness) == [service |-> "turn_off", brightness |-> brightness]

\* the first command of cb_fade_begin
begin_target(args, current) ==
    LET current_brightness == val_to_pct(current)
        brightness_start == IF args.brightness_start # 0
                            THEN [num |-> args.brightness_start, den |-> 1]
                            ELSE current_brightness
    IN  Max2(pct_to_val(brightness_start) + 1, MIN_BRIGHTNESS)

\* cb_fade_begin(event_name, data, kwargs), the light reporting current before and
\* after the turn_on
cb_fade_begin(args, current, after) ==
    LET current_brightness == val_to_pct(current)
        brightness_start == IF args.brightness_start # 0
                            THEN [num |-> args.brightness_start, den |-> 1]
                            ELSE current_brightness
        brightness_end == args.brightness_end
        increase == brightness_end * brightness_start.den >= brightness_start.num
        bright_start == pct_to_val(brightness_start)
        bright_end == pct_to_val([num |-> brightness_end, den |-> 1])
        c == calc_step(bright_start, bright_end, args.duration)
        bright_target == Max2(bright_start + 1, MIN_BRIGHTNESS)
    IN
    IF c.exc # "none" THEN [exc |-> c.exc, sent |-> <<>>, timers |-> {}]
    ELSE [exc |-> "none",
          sent |-> <<TurnOn(bright_target)>>,
          timers |-> IF c.num_steps > 0
                     THEN {[bright_start |-> bright_start, bright_end |-> bright_end,
                            increase |-> increase, step_duration |-> c.step_duration,
                            step_size |-> c.step_size, last_step |-> 1,
                            bright_target |-> bright_target,
                            bright_previous |-> after]}
                     ELSE {}]

\* cb_fader that passes last_step on as it got it
cb_fader_same_step(kw, current) ==
    IF current = <<>> THEN [exc |-> "TypeError", sent |-> <<>>, timers |-> {}]
    ELSE
    LET current_brightness_val == current[1] IN
    IF Abs(current_brightness_val - kw.bright_target) > CLOSE_ENOUGH
       /\ kw.bright_previous = <<>>
    THEN [exc |-> "TypeError", sent |-> <<>>, timers |-> {}]
    ELSE IF /\ Abs(current_brightness_val - kw.bright_target) > CLOSE_ENOUGH
            /\ Abs(current_brightness_val - kw.bright_previous[1]) > CLOSE_ENOUGH
    THEN [exc |-> "none", sent |-> <<>>, timers |-> {}]
    ELSE IF \/ kw.increase /\ current_brightness_val >= kw.bright_end
            \/ ~kw.increase /\ current_brightness_val <= kw.bright_end
    THEN [exc |-> "none", sent |-> <<>>, timers |-> {}]
    ELSE
        LET stepped == current_brightness_val
                        + kw.step_size * (IF kw.increase THEN 1 ELSE -1)
            new_brightness == IF kw.increase
                              THEN Min2(Min2(stepped, kw.bright_end), 255)
                              ELSE Max2(Max2(stepped, kw.bright_end), 0)
        IN  [exc |-> "none",
             sent |-> IF new_brightness <= 0 THEN <<TurnOff(0)>>
                      ELSE <<TurnOn(new_brightness)>>,
             timers |-> {[kw EXCEPT !.bright_target = new_brightness,
                                    !.bright_previous = current]}]

\* cb_fader without the test for a manual change
cb_fader_no_cancel(kw, current) ==
    IF current = <<>> THEN [exc |-> "TypeError", sent |-> <<>>, timers |-> {}]
    ELSE
    LET current_brightness_val == current[1] IN
    IF \/ kw.increase /\ current_brightness_val >= kw.bright_end
       \/ ~kw.increase /\ current_brightness_val <= kw.bright_end
    THEN [exc |-> "none", sent |-> <<>>, timers |-> {}]
    ELSE IF (kw.last_step - 1) * kw.step_size > Abs(kw.bright_end - kw.bright_start)
    THEN [exc |-> "none", sent |-> <<>>, timers |-> {}]
    ELSE
        LET stepped == current_brightness_val
                        + kw.step_size * (IF kw.increase THEN 1 ELSE -1)
            new_brightness == IF kw.increase
                              THEN Min2(Min2(stepped, kw.bright_end), 255)
                              ELSE Max2(Max2(stepped, kw.bright_end), 0)
        IN  [exc |-> "none",
             sent |-> IF new_brightness <= 0 THEN <<TurnOff(0)>>
                      ELSE <<TurnOn(new_brightness)>>,
             timers |-> {[kw EXCEPT !.last_step = @ + 1,
                                    !.bright_target = new_brightness,
                                    !.bright_previous = current]}]

\* cb_fader(kwargs), the light reporting current
cb_fader(kw, current) ==
    IF current = <<>> THEN [exc |-> "TypeError", sent |-> <<>>, timers |-> {}]
    ELSE
    LET current_brightness_val == current[1] IN
    IF Abs(current_brightness_val - kw.bright_target) > CLOSE_ENOUGH
       /\ kw.bright_previous = <<>>
    THEN [exc |-> "TypeError", sent |-> <<>>, timers |-> {}]
    ELSE IF /\ Abs(current_brightness_val - kw.bright_target) > CLOSE_ENOUGH
            /\ Abs(current_brightness_val - kw.bright_previous[1]) > CLOSE_ENOUGH
    THEN [exc |-> "none", sent |-> <<>>, timers |-> {}]
    ELSE IF \/ kw.increase /\ current_brightness_val >= kw.bright_end
            \/ ~kw.increase /\ current_brightness_val <= kw.bright_end
    THEN [exc |-> "none", sent |-> <<>>, timers |-> {}]
    ELSE IF (kw.last_step - 1) * kw.step_size > Abs(kw.bright_end - kw.bright_start)
    THEN [exc |-> "none", sent |-> <<>>, timers |-> {}]
    ELSE
        LET stepped == current_brightness_val
                        + kw.step_size * (IF kw.increase THEN 1 ELSE -1)
            new_brightness == IF kw.increase
                              THEN Min2(Min2(stepped, kw.bright_end), 255)
                              ELSE Max2(Max2(stepped, kw.bright_end), 0)
        IN  [exc |-> "none",
             sent |-> IF new_brightness <= 0 THEN <<TurnOff(0)>>
                      ELSE <<TurnOn(new_brightness)>>,
             timers |-> {[kw EXCEPT !.last_step = @ + 1,
                                    !.bright_target = new_brightness,
                                    !.bright_previous = current]}]

\* the events tried: brightness_start and brightness_end in percent, duration in
\* seconds
FadeArgs ==
    {[brightness_start |-> a, brightness_end |-> b, duration |-> d] :
        a \in {0, 40, 100}, b \in {0, 40, 100}, d \in {0, 10, 20}}

\* what the light may report: nothing (it is off), a value that HA clamps, one above
\* 255, and in a fade the value last commanded (it responded), the value it had
\* before (it did not), or one that somebody set by hand
BeginReadings == {<<>>, <<0>>, <<128>>, <<300>>}
AfterReadings(args, current) == {<<>>, current, <<begin_target(args, current)>>}
FaderReadings(kw) == {<<>>, <<kw.bright_target>>, kw.bright_previous, <<200>>, <<300>>}

NoFadeCall == [op |-> "none"]

InitFade ==
    /\ mqtt_base_topic = MQTT_DEFAULT_BASE_TOPIC
    /\ light_fade = [initialized |-> FALSE, begun |-> 0, timers |-> {},
                     sent |-> <<>>, exc |-> "none", last |-> NoFadeCall]
    /\ backup_ha = [initialized |-> FALSE]
    /\ gentlewakeup = [initialized |-> FALSE]
    /\ haven = [initialized |-> FALSE]
    /\ partsIdle
    /\ dispIdle
    /\ syncIdle
    /\ codecIdle
    /\ netIdle

FadeUnchanged ==
    UNCHANGED <<mqtt_base_topic, partsVars, dispVars, syncVars, codecVars, netVars,
                backup_ha, gentlewakeup, haven>>

\* LightFade.initialize: listen_event(cb_fade_begin, "light_fade.begin")
LightFade_initialize ==
    /\ ~light_fade.initialized
    /\ light_fade' = [light_fade EXCEPT !.initialized = TRUE,
                                        !.last = [op |-> "initialize"]]
    /\ FadeUnchanged

\* a light_fade.begin event, once the fade before it has ended
FadeBegin ==
    /\ light_fade.initialized
    /\ light_fade.begun < MaxFades
    /\ light_fade.timers = {}
    /\ \E args \in FadeArgs, current \in BeginReadings :
       \E after \in AfterReadings(args, current) :
       \E r \in {cb_fade_begin(args, current, after)} :
        light_fade' = [light_fade EXCEPT
                        !.begun = @ + 1, !.timers = r.timers, !.sent = r.sent,
                        !.exc = r.exc,
                        !.last = [op |-> "cb_fade_begin", args |-> args,
                                  current |-> current]]
    /\ FadeUnchanged

\* a cb_fader timer comes due
FadeStep ==
    /\ light_fade.initialized
    /\ \E kw \in light_fade.timers :
       \E current \in FaderReadings(kw) :
       \E r \in {cb_fader(kw, current)} :
        light_fade' = [light_fade EXCEPT
                        !.timers = (@ \ {kw}) \cup r.timers, !.sent = r.sent,
                        !.exc = r.exc,
                        !.last = [op |-> "cb_fader", kw |-> kw, current |-> current]]
    /\ FadeUnchanged

NextFade == LightFade_initialize \/ FadeBegin \/ FadeStep

SpecFade == InitFade /\ [][NextFade]_vars

\* the scheduler runs every timer that has come due
SpecFadeLive == SpecFade /\ WF_vars(FadeStep)

\* C34: after cb_fade_begin the chain of cb_fader callbacks stops rescheduling
\* itself after finitely many steps, whatever the light reports: in the end no
\* cb_fader timer is left, and no chain outlives its step count
C34_FadeTerminates ==
    /\ <>[](light_fade.timers = {})
    /\ [](\A kw \in light_fade.timers :
            (kw.last_step - 2) * kw.step_size <= Abs(kw.bright_end - kw.bright_start))

\* a fade of a light that never responded has run out of steps
C34_Witness ==
    /\ light_fade.last.op = "cb_fader"
    /\ light_fade.last.kw.last_step >= 3
    /\ light_fade.last.current = light_fade.last.kw.bright_previous
    /\ light_fade.last.current # <<light_fade.last.kw.bright_target>>
    /\ light_fade.exc = "none"
    /\ light_fade.sent = <<>>
    /\ light_fade.timers = {}

\* C35: every brightness LightFade sends to a light, in cb_fade_begin and in
\* cb_fader, lies in 0..255
C35_BrightnessInRange ==
    \A i \in 1..Len(light_fade.sent) : light_fade.sent[i].brightness \in 0..255

\* the brightness read at the last cb_fader step is more than CLOSE_ENOUGH away
\* from the target last commanded and from the brightness seen before it
ManualOverride ==
    /\ light_fade.last.op = "cb_fader"
    /\ light_fade.last.current # <<>>
    /\ light_fade.last.kw.bright_previous # <<>>
    /\ Abs(light_fade.last.current[1] - light_fade.last.kw.bright_target)
            > CLOSE_ENOUGH
    /\ Abs(light_fade.last.current[1] - light_fade.last.kw.bright_previous[1])
            > CLOSE_ENOUGH

\* C36: a cb_fader step that finds the brightness more than 5 away from both the
\* last commanded target and the previously observed brightness sends no
\* brightness command and schedules no further step of that fade
C36_ManualOverrideCancels ==
    ManualOverride => (light_fade.sent = <<>> /\ light_fade.timers = {})

\* somebody set a fading light to 200 by hand while it was short of its end
C36_Witness ==
    /\ ManualOverride
    /\ light_fade.last.current = <<200>>
    /\ light_fade.last.kw.increase
    /\ light_fade.last.kw.bright_end > 200
    /\ light_fade.last.kw.last_step = 1
    /\ light_fade.exc = "none"
    /\ light_fade.sent = <<>>
    /\ light_fade.timers = {}

\* C37: with test_mode true neither cb_gw_on nor cb_gw_off actuates a device: no
\* callback fires an event, and none turns a light on or off or changes what a
\* player does
C37_TestModeActuatesNothing ==
    [][(gentlewakeup.initialized /\ gentlewakeup.test_mode) =>
            /\ gentlewakeup'.events = {}
            /\ gentlewakeup'.lights = gentlewakeup.lights
            /\ gentlewakeup'.playing = gentlewakeup.playing]_vars

---------------------------------------------------------------------------
(* HavenHomeModeSync (haven_home_mode.py), the older component: topics are *)
(* mqtt_shared/<host>/<event_type>[/<entity>], and it has its own EventParts, *)
(* dispatcher and callbacks, named here with the prefix haven_ *)

\* str(None), as an f-string renders it
S_None == <<"N", "o", "n", "e">>
S_e_hash_h == <<"e", "_", "#", "h", "#">>
S_e_hash_g == <<"e", "_", "#", "g", "#">>
S_bogus == <<"B", "O", "G", "U", "S">>

\* the most MQTT messages and state changes of a run
MaxHavenEvents == 2

\* f"{value}"
fstr(value) == IF value = None THEN S_None ELSE value

\* EventParts._do_split: three or four pieces, the first MQTT_BASE_TOPIC
haven_do_split(topic) ==
    LET parts == split(topic) IN
    IF Len(parts) < 3 \/ Len(parts) > 4
    THEN [split_ok |-> FALSE, host |-> None, event_type |-> None, entity |-> None]
    ELSE IF parts[1] # MQTT_DEFAULT_BASE_TOPIC
    THEN [split_ok |-> FALSE, host |-> None, event_type |-> None, entity |-> None]
    ELSE [split_ok |-> TRUE, host |-> parts[2], event_type |-> parts[3],
          entity |-> IF Len(parts) >= 4 THEN parts[4] ELSE None]

\* EventParts._match_pattern; the patterns registered are None or non-empty
haven_match_pattern(value, pat) ==
    IF pat = None THEN TRUE
    ELSE IF pat[1] = "!" THEN Tail(pat) # value
    ELSE pat = value

\* EventPattern(pattern_host, pattern_event_type, pattern_entity)
haven_EventPattern(pattern_host, pattern_event_type, pattern_entity) ==
    [pattern_host |-> pattern_host, pattern_event_type |-> pattern_event_type,
     pattern_entity |-> pattern_entity]

\* EventParts(adapi, event, pattern)
haven_EventParts(topic, pat) ==
    LET f == haven_do_split(topic) IN
    [host |-> f.host, event_type |-> f.event_type, entity |-> f.entity,
     matches |-> /\ f.split_ok
                 /\ haven_match_pattern(f.host, pat.pattern_host)
                 /\ haven_match_pattern(f.event_type, pat.pattern_event_type)
                 /\ haven_match_pattern(f.entity, pat.pattern_entity)]

\* entity_add_my_hostname: f"{entity}_#{self.my_hostname}", with no "#" after it
haven_entity_add_my_hostname(entity, hostname) == entity \o <<"_", "#">> \o hostname

\* entity_split_hostname: re.fullmatch(r"(.*)_#([^#]+)#", entity).  The id has to
\* end in "#", and the host group is what lies between it and the "_#" before it
haven_entity_split_hostname(entity) ==
    IF entity = None THEN [exc |-> "TypeError", entity |-> None, host |-> None]
    ELSE
        LET n == Len(entity)
            cuts == {i \in 1..n :
                        /\ i + 3 <= n
                        /\ entity[i] = "_"
                        /\ entity[i + 1] = "#"
                        /\ entity[n] = "#"
                        /\ \A j \in (i + 2)..(n - 1) : entity[j] # "#"
                        /\ \A j \in 1..(i - 1) : entity[j] # "\n"}
        IN  IF cuts = {}
            THEN [exc |-> "none", entity |-> entity, host |-> None]
            ELSE LET i == CHOOSE c \in cuts : \A o \in cuts : o <= c IN
                 [exc |-> "none", entity |-> SubSeq(entity, 1, i - 1),
                  host |-> SubSeq(entity, i + 2, n - 1)]

\* store with entity id set to state
SetState(store_, id, state) ==
    [x \in DOMAIN store_ \cup {id} |-> IF x = id THEN state ELSE store_[x]]

\* ping_callback: publishes mqtt_shared/<my_hostname>/pong
haven_ping_callback(w, host, payload) ==
    [w EXCEPT !.published =
        Append(@, Message(join(<<MQTT_DEFAULT_BASE_TOPIC, w.my_hostname, S_pong>>),
                          payload))]

\* inbound_state_callback: host is replaced by what entity_split_hostname finds in
\* the entity id, None when the id has no suffix
haven_inbound_state_callback(w, host_, entity_, payload) ==
    LET r == haven_entity_split_hostname(entity_) IN
    IF r.exc # "none" THEN [w EXCEPT !.exc = r.exc]
    ELSE IF r.host # w.my_hostname
    THEN [w EXCEPT !.store = SetState(@, r.entity \o <<"_">> \o fstr(r.host), payload)]
    ELSE [w EXCEPT !.log = Append(@, "Ignoring")]

\* the listeners of initialize, in the order they are added
haven_listeners(hostname) ==
    <<[name |-> "print all", pattern |-> haven_EventPattern(None, None, None)],
      [name |-> "ping/pong", pattern |-> haven_EventPattern(Bang(hostname), S_ping, None)],
      [name |-> "inbound state",
       pattern |-> haven_EventPattern(Bang(hostname), S_state, None)]>>

\* one listener of dispatch: its callback, when the topic matches its pattern
haven_call(w, l, topic, payload) ==
    LET p == haven_EventParts(topic, l.pattern) IN
    IF w.exc # "none" \/ ~p.matches THEN w
    ELSE
        LET w1 == [w EXCEPT !.invoked = Append(@, l.name)] IN
        IF l.name = "ping/pong" THEN haven_ping_callback(w1, p.host, payload)
        ELSE IF l.name = "inbound state"
        THEN haven_inbound_state_callback(w1, p.host, p.entity, payload)
        ELSE [w1 EXCEPT !.log = Append(@, "default_callback")]

\* mq_listener: dispatcher.dispatch(topic, payload) over the three listeners; an
\* exception of a callback ends the loop
haven_dispatch(w, topic, payload) ==
    LET ls == haven_listeners(w.my_hostname)
        w0 == [w EXCEPT !.invoked = <<>>, !.exc = "none", !.log = <<>>]
        w3 == haven_call(haven_call(haven_call(w0, ls[1], topic, payload),
                                    ls[2], topic, payload),
                         ls[3], topic, payload)
    IN  IF w3.exc = "none" /\ w3.invoked = <<>>
        THEN [w3 EXCEPT !.log = Append(@, "could not find pattern to match")]
        ELSE w3

\* state_callback of register_state_entities
haven_state_callback(w, entity, new) ==
    [w EXCEPT !.invoked = <<>>, !.exc = "none", !.log = <<>>,
              !.published =
        Append(@, Message(join(<<MQTT_DEFAULT_BASE_TOPIC, w.my_hostname, S_state,
                                 entity>>), new))]

\* the topics that arrive: a state message of either host for a plain entity or
\* for one with a host suffix, a state message without entity, a ping, a pong, a
\* topic with one piece too many and one under another base
HavenTopics ==
    {join(<<MQTT_DEFAULT_BASE_TOPIC, h>> \o rest) :
        h \in Hosts,
        rest \in {<<S_state, S_e>>, <<S_state, S_e_hash_h>>, <<S_state, S_e_hash_g>>,
                  <<S_state>>, <<S_ping>>, <<S_pong>>, <<S_state, S_e, S_e>>}}
    \cup {join(<<S_bogus, S_h, S_state, S_e>>)}

NoHavenCall == [op |-> "none"]

InitHaven ==
    /\ mqtt_base_topic = MQTT_DEFAULT_BASE_TOPIC
    /\ \E h \in Hosts :
        haven = [initialized |-> FALSE, my_hostname |-> h, state_entities |-> {S_e},
                 registered |-> FALSE, run_in |-> FALSE, events |-> 0,
                 store |-> <<>>, published |-> <<>>, invoked |-> <<>>,
                 log |-> <<>>, exc |-> "none", last |-> NoHavenCall]
    /\ backup_ha = [initialized |-> FALSE]
    /\ gentlewakeup = [initialized |-> FALSE]
    /\ light_fade = [initialized |-> FALSE]
    /\ partsIdle
    /\ dispIdle
    /\ syncIdle
    /\ codecIdle
    /\ netIdle

HavenUnchanged ==
    UNCHANGED <<mqtt_base_topic, partsVars, dispVars, syncVars, codecVars, netVars,
                backup_ha, gentlewakeup, light_fade>>

\* HavenHomeModeSync.initialize: the three listeners, and
\* run_in(register_state_entities, 0)
HavenHomeModeSync_initialize ==
    /\ ~haven.initialized
    /\ haven' = [haven EXCEPT !.initialized = TRUE, !.run_in = TRUE,
                              !.last = [op |-> "initialize"]]
    /\ HavenUnchanged

\* register_state_entities: listen_state(state_callback, entity) for each entity
HavenRegisterStateEntities ==
    /\ haven.initialized
    /\ haven.run_in
    /\ haven' = [haven EXCEPT !.run_in = FALSE, !.registered = TRUE,
                              !.last = [op |-> "register_state_entities"]]
    /\ HavenUnchanged

\* a registered entity changes state
HavenStateChange ==
    /\ haven.registered
    /\ haven.events < MaxHavenEvents
    /\ \E entity \in haven.state_entities, new \in Payloads :
        haven' = [haven_state_callback(haven, entity, new) EXCEPT
                    !.events = @ + 1,
                    !.last = [op |-> "state_callback", entity |-> entity,
                              payload |-> new]]
    /\ HavenUnchanged

\* an MQTT_MESSAGE event: mq_listener
HavenMqListener ==
    /\ haven.initialized
    /\ haven.events < MaxHavenEvents
    /\ \E topic \in HavenTopics, payload \in Payloads :
        haven' = [haven_dispatch(haven, topic, payload) EXCEPT
                    !.events = @ + 1,
                    !.last = [op |-> "mq_listener", topic |-> topic,
                              payload |-> payload]]
    /\ HavenUnchanged

\* entity_split_hostname(entity_add_my_hostname(entity))
HavenRoundTrip ==
    /\ haven.initialized
    /\ haven.last.op # "round_trip"
    /\ \E entity \in EntityIds :
       \E added \in {haven_entity_add_my_hostname(entity, haven.my_hostname)} :
       \E r \in {haven_entity_split_hostname(added)} :
        haven' = [haven EXCEPT
                    !.last = [op |-> "round_trip", entity |-> entity,
                              added |-> added, ret |-> <<r.entity, r.host>>]]
    /\ HavenUnchanged

NextHaven ==
    \/ HavenHomeModeSync_initialize
    \/ HavenRegisterStateEntities
    \/ HavenStateChange
    \/ HavenMqListener
    \/ HavenRoundTrip

SpecHaven == InitHaven /\ [][NextHaven]_vars

\* C38: in the older component entity_split_hostname undoes
\* entity_add_my_hostname: entity_split_hostname(entity_add_my_hostname(e)) is
\* (e, my_hostname) for every entity id e and every hostname without "#"
C38_HavenRoundTrip ==
    haven.last.op = "round_trip" =>
        haven.last.ret = <<haven.last.entity, haven.my_hostname>>

\* the last message was a state message of another host for an entity id that has
\* no host suffix
PlainStateFromOther ==
    /\ haven.last.op = "mq_listener"
    /\ \E h \in Hosts \ {haven.my_hostname} :
        haven.last.topic = join(<<MQTT_DEFAULT_BASE_TOPIC, h, S_state, S_e>>)

\* C39: in the older component a state message that another host H published for
\* a plain entity E sets the local entity E_H, named after the sending host, to
\* the payload, and no other entity
C39_HavenMirrorNamedAfterSender ==
    [][PlainStateFromOther' =>
        \E h \in Hosts \ {haven.my_hostname} :
            /\ haven'.last.topic = join(<<MQTT_DEFAULT_BASE_TOPIC, h, S_state, S_e>>)
            /\ haven'.store = SetState(haven.store, S_e \o <<"_">> \o h,
                                       haven'.last.payload)]_vars

====
